---- MODULE Spec2Model ----
(***************************************************************************)
(* State-machine model of the Soda trading bot core                        *)
(* (src/src/wallet, src/src/trading, src/src/analytics).  External         *)
(* collaborators (RPC node, DEX, bundle relay, clock, random source) are   *)
(* inputs drawn with \E.                                                   *)
(*                                                                         *)
(* Units: SOL amounts are carried as integer lamports (1 SOL = 10^9).      *)
(* A wallet is identified with its public address, an integer; the         *)
(* keypair stored beside it is not modelled separately.                    *)
(***************************************************************************)
EXTENDS Integers, Sequences, FiniteSets, TLC

VARIABLES
    \* WalletManager configuration (wallet_manager.py:26-39)
    main_wallet_key,    \* "" when MAIN_WALLET_PRIVATE_KEY is unset, else "key"
    max_wallets,
    max_retries,
    \* WalletManager pool state (wallet_manager.py:41-44)
    current_round,
    wallets,            \* round number -> sequence of addresses
    trading_wallets,    \* set of addresses held in the trading_wallets map
    next_key,           \* the next fresh address Keypair() produces
    \* the WalletManager call in progress / last returned
    wm_op,              \* "none" | "create" | "distribute" | "recall"
    wm_pc,              \* "idle" | "distribute" | "recall"
    wm_keys,            \* wallet_keys argument of the transfer call
    wm_idx,             \* 1-based index of the loop's next wallet
    wm_lamports,        \* lamports_per_wallet of distribute_sol
    wm_visits,          \* one record per wallet the loop has handled
    wm_sends,           \* one record per rpc_client.send_transaction call
    wm_result,          \* "none" | "running" | "True" | "False" | "ok" | "ValueError"
    \* JitoBundler.create_bundle call in progress / last returned (bundler.py)
    bd_pc,              \* "idle" | "chunks"
    bd_txs,             \* the transactions argument
    bd_chunk,           \* 1-based index of the next chunk of tx_chunks
    bd_builds,          \* one record per _build_bundle call
    bd_result,          \* "none" | "running" | "None" | a bundle id
    \* RiskManager (risk_manager.py) and the market it watches
    positions,          \* the positions dict, as its entries in insertion order
    monitoring,
    rm_pc,              \* "stopped" | "tick" | "sleep" | "backoff"
    rm_next,            \* index of the entry the dict iterator yields next
    rm_used,            \* size of the dict when the iterator was created
    rm_last,            \* what the last position check of the loop did
    market_price,       \* price the DEX currently quotes
    price_fell,         \* history: the quoted price has fallen at some time
    rm_second,          \* a second start_monitoring coroutine: its place, iterator index and size
    \* TradingPattern (trading_patterns.py): the pattern call in progress
    pt_op,              \* "none" | "pump" | "milkshake" | "high_frequency"
    pt_pc,              \* "idle" | "price" | "swaps" | "hf_loop" | "hf_buys" |
                        \* "hf_sells" | "hf_orphans" | "done"
    pt_group,           \* the caller's wallet_group list
    pt_plan,            \* pump / milkshake: the wallet lookups and swaps to do
    pt_idx,             \* next entry of pt_plan
    pt_pending,         \* high-frequency: started swaps that have not finished
    pt_rounds,          \* high-frequency: passes of the while loop entered
    pt_duration,        \* high-frequency: duration_seconds
    pt_swaps,           \* log: execute_swap calls that have finished
    pt_result,          \* "none" | "running" | "completed" | "raised"
    \* TradeExecutor (trade_executor.py): configuration and the round in progress
    wallet_group_size,
    hf_enabled,         \* high_frequency['enabled']
    rd_kind,            \* "none" | "trading" | "high_frequency"
    rd_pc,              \* "idle" | "distribute" | "distributing" | "loop" | "pattern" |
                        \* "batch" | "recalling" | "done"
    rd_group,           \* wallet_group, as create_wallet_group returned it
    rd_funded,          \* what distribute_sol returned to the round ("none" before)
    rd_patterns,        \* log: the pattern calls the round has started
    rd_batch,           \* high-frequency round: tasks of the batch not yet followed
    rd_passes,          \* passes of the round's while loop entered
    rd_result,          \* "none" | "running" | "completed" | "raised" | "returned"
    rd_calls,           \* log: the calls the round has made, in order
    \* TradeExecutor.start_trading_session: the session call in progress
    ss_pc,              \* "idle" | "loop" | "round" | "done"
    ss_result,          \* "none" | "running" | "completed" | "raised"
    \* MEVProtection.create_protected_bundle (mev_protection.py): the last call
    mv_main,            \* the main_tx argument ("none" before the first call)
    mv_group,           \* the wallet_group argument
    mv_bundle,          \* bundle['transactions'] as returned, <<>> when none was
    mv_result,          \* "none" | "bundle" | "IndexError"
    \* VolumeTracker (volume_tracker.py) and the wall clock it reads
    trades,             \* the trades list, in recording order
    session_start,      \* None or Some(clock reading taken by start_session)
    target_volume,      \* None or Some(binary64 value)
    session_duration,   \* None or Some(session length in hours)
    now,                \* what datetime.now() returns next
    vt_last,            \* the last VolumeTracker call and its arguments
    vt_result,          \* what that call returned or raised
    \* ArbitrageDetector (arbitrage_detector.py)
    dexes,              \* the dexes dict, as its entries in insertion order
    ad_result,          \* what the last ArbitrageDetector call returned or raised
    ad_optimal,         \* the last calculate_optimal_amount call and its result
    \* TradeExecutor.execute_trade (trade_executor.py): the last call
    et_last,            \* its arguments and what its collaborators answered
    et_result           \* what it returned or raised

wmVars == <<main_wallet_key, max_wallets, max_retries, current_round, wallets,
            trading_wallets, next_key, wm_op, wm_pc, wm_keys, wm_idx,
            wm_lamports, wm_visits, wm_sends, wm_result>>

bdVars == <<bd_pc, bd_txs, bd_chunk, bd_builds, bd_result>>

rmVars == <<positions, monitoring, rm_pc, rm_next, rm_used, rm_last,
            market_price, price_fell, rm_second>>

ptVars == <<pt_op, pt_pc, pt_group, pt_plan, pt_idx, pt_pending, pt_rounds,
            pt_duration, pt_swaps, pt_result>>

rdVars == <<wallet_group_size, hf_enabled, rd_kind, rd_pc, rd_group, rd_funded,
            rd_patterns, rd_batch, rd_passes, rd_result, rd_calls>>

ssVars == <<ss_pc, ss_result>>

mvVars == <<mv_main, mv_group, mv_bundle, mv_result>>

vtVars == <<trades, session_start, target_volume, session_duration, now,
            vt_last, vt_result>>

adVars == <<dexes, ad_result, ad_optimal>>

etVars == <<et_last, et_result>>

vars == <<wmVars, bdVars, rmVars, ptVars, rdVars, ssVars, mvVars, vtVars, adVars, etVars>>

(***************************************************************************)
(* Bounds of the model.                                                    *)
(***************************************************************************)
MaxWallets == 2     \* the configured max_wallets (MAX_WALLETS) of the runs
MaxPool == 4        \* wallets created in one run
MaxRounds == 4      \* wallet groups created in one run
MaxRetries == 2     \* largest configured max_retries (MAX_RETRIES)
GroupSize == 2      \* size of the wallet group the transfer runs start with
MaxTxs == 7         \* transactions handed to one create_bundle call
PatternWallets == 3 \* size of the wallet group the pattern runs start with
MaxHfRounds == 2    \* passes of the high-frequency loop in one call
MaxPasses == 2      \* passes of the while loop of one trading round
MaxTrades == 3      \* trades recorded in one session
MaxClock == 2       \* readings of the wall clock after the first
MaxAmount == 12     \* largest max_amount of an opportunity

\* A valid address that the pool never created.
OtherKey == 0

\* int(0.001 * 1e9): the fee reserve recall_sol leaves behind, in lamports.
FeeReserveLamports == 1000000

\* Wallet addresses are the integers 1, 2, ... in order of creation and
\* OtherKey is an address the manager never created.  create_trading_wallet
\* returns the tuple (keypair, address); Pair(k) stands for the tuple of the
\* wallet with address k.  A tuple is not an address: PublicKey() rejects it
\* and it is no key of trading_wallets.
Pair(k) == -k

IsAddress(key) == key >= 0

PairsOf(group) == [i \in 1..Len(group) |-> Pair(group[i])]

Sizes == 0..(MaxWallets + 1)

\* amount_per_wallet inputs, in units of half a lamport (0.5e-9 SOL).
HalfLamportAmounts == {-3, 0, 3}

\* get_balance values (lamports) the node may report.
Balances == {0, 1, FeeReserveLamports, FeeReserveLamports + 1,
             FeeReserveLamports + 3, 2 * FeeReserveLamports}

(***************************************************************************)
(* Pure helpers.                                                           *)
(***************************************************************************)
\* Python int(x) on the rational n/d (d > 0): truncation toward zero.
TruncDiv(n, d) == IF n >= 0 THEN n \div d ELSE -((-n) \div d)

Pow2(k) == IF k = 0 THEN 1 ELSE IF k = 1 THEN 2 ELSE IF k = 2 THEN 4 ELSE 8

Reverse(s) == [i \in 1..Len(s) |-> s[Len(s) + 1 - i]]

ReplaceAt(s, i, v) == [s EXCEPT ![i] = v]

\* _retry_transaction(transaction, signer): `fails` is the number of
\* consecutive send_transaction calls the node rejects.  The loop runs
\* attempt = 0 .. retries-1; with retries <= 0 it never runs and the function
\* falls off its end, returning None.
RECURSIVE RetryLoop(_, _, _)
RetryLoop(attempt, retries, fails) ==
    IF attempt >= retries
    THEN [result |-> "None", outcomes |-> <<>>, sleeps |-> <<>>]
    ELSE IF attempt >= fails
    THEN [result |-> "True", outcomes |-> <<TRUE>>, sleeps |-> <<>>]
    ELSE IF attempt = retries - 1
    THEN [result |-> "False", outcomes |-> <<FALSE>>, sleeps |-> <<>>]
    ELSE LET rest == RetryLoop(attempt + 1, retries, fails)
         IN  [result |-> rest.result,
              outcomes |-> <<FALSE>> \o rest.outcomes,
              sleeps |-> <<Pow2(attempt)>> \o rest.sleeps]

RetryTransaction(fails) == RetryLoop(0, max_retries, fails)

\* The send_transaction calls one _retry_transaction makes, as log records.
SendRecords(idx, key, lamports, outcomes) ==
    [j \in 1..Len(outcomes) |->
        [idx |-> idx, key |-> key, lamports |-> lamports, ok |-> outcomes[j]]]

(***************************************************************************)
(* WalletManager.create_wallet_group                                       *)
(***************************************************************************)
\* the capacity test of create_wallet_group: TRUE when the request is refused
ExceedsCapacity(size) == size > max_wallets

\* Mutant: one keypair is generated before the loop and appended `size` times.
CreateWalletGroup_OneKeypair(size) ==
    /\ wm_pc = "idle"
    /\ wm_op' = "create"
    /\ UNCHANGED <<main_wallet_key, max_wallets, max_retries, wm_pc, wm_idx,
                   wm_lamports, wm_visits, wm_sends>>
    /\ IF size > max_wallets
       THEN /\ wm_result' = "ValueError"
            /\ wm_keys' = <<>>
            /\ UNCHANGED <<current_round, wallets, trading_wallets, next_key>>
       ELSE /\ next_key <= MaxPool
            /\ current_round < MaxRounds
            /\ LET group == [i \in 1..size |-> next_key]
               IN  /\ trading_wallets' = trading_wallets \cup {group[i] : i \in 1..size}
                   /\ next_key' = next_key + 1
                   /\ current_round' = current_round + 1
                   /\ wallets' = Append(wallets, group)
                   /\ wm_keys' = group
                   /\ wm_result' = "ok"

CreateWalletGroup(size) ==
    /\ wm_pc = "idle"
    /\ wm_op' = "create"
    /\ UNCHANGED <<main_wallet_key, max_wallets, max_retries, wm_pc, wm_idx,
                   wm_lamports, wm_visits, wm_sends>>
    /\ IF ExceedsCapacity(size)
       THEN /\ wm_result' = "ValueError"
            /\ wm_keys' = <<>>
            /\ UNCHANGED <<current_round, wallets, trading_wallets, next_key>>
       ELSE /\ (next_key - 1) + size <= MaxPool
            /\ current_round < MaxRounds
            /\ LET group == [i \in 1..size |-> next_key + i - 1]
               IN  /\ trading_wallets' = trading_wallets \cup {group[i] : i \in 1..size}
                   /\ next_key' = next_key + size
                   /\ current_round' = current_round + 1
                   /\ wallets' = [r \in 1..(current_round + 1) |->
                                    IF r = current_round + 1 THEN group ELSE wallets[r]]
                   /\ wm_keys' = group
                   /\ wm_result' = "ok"

(***************************************************************************)
(* WalletManager.distribute_sol                                            *)
(***************************************************************************)
\* lamports_per_wallet = int(amount_per_wallet * 1e9)
LamportsPerWallet(halfLamports) == TruncDiv(halfLamports, 2)

StartDistribute(keys, halfLamports) ==
    /\ wm_pc = "idle"
    /\ wm_op' = "distribute"
    /\ wm_keys' = keys
    /\ wm_visits' = <<>>
    /\ wm_sends' = <<>>
    /\ wm_idx' = 1
    /\ UNCHANGED <<main_wallet_key, max_wallets, max_retries, current_round,
                   wallets, trading_wallets, next_key>>
    /\ IF main_wallet_key = ""
       THEN \* ValueError raised and caught by the function's own except
            /\ wm_result' = "False"
            /\ wm_lamports' = 0
            /\ wm_pc' = "idle"
       ELSE /\ wm_lamports' = LamportsPerWallet(halfLamports)
            /\ IF Len(keys) = 0
               THEN wm_result' = "True" /\ wm_pc' = "idle"
               ELSE wm_result' = "running" /\ wm_pc' = "distribute"

\* Mutant: the result of _retry_transaction is ignored and the loop goes on.
DistributeAfterSend_Ignored(result) ==
    IF wm_idx = Len(wm_keys) THEN "done" ELSE "next"

\* What distribute_sol does after _retry_transaction returned `result` for
\* the wallet at wm_idx: "return" (False), "next" wallet, or "done" (True).
DistributeAfterSend(result) ==
    IF result # "True" THEN "return"
    ELSE IF wm_idx = Len(wm_keys) THEN "done"
    ELSE "next"

\* One iteration of the for loop: PublicKey(wallet_key), fresh blockhash,
\* then the retried send.  An exception of the first two is caught by the
\* function's own except clause, which returns False.
DistributeStep(blockhashOk, fails) ==
    /\ wm_pc = "distribute"
    /\ UNCHANGED <<main_wallet_key, max_wallets, max_retries, current_round,
                   wallets, trading_wallets, next_key, wm_op, wm_keys, wm_lamports>>
    /\ LET key == wm_keys[wm_idx]
           r == RetryTransaction(fails)
           after == DistributeAfterSend(r.result)
       IN  IF ~IsAddress(key) \/ ~blockhashOk
           THEN /\ wm_visits' = Append(wm_visits,
                       [idx |-> wm_idx, key |-> key, bal |-> 0,
                        outcome |-> IF ~IsAddress(key) THEN "invalid_key"
                                    ELSE "blockhash_error"])
                /\ wm_result' = "False"
                /\ wm_pc' = "idle"
                /\ UNCHANGED <<wm_sends, wm_idx>>
           ELSE /\ wm_sends' = wm_sends \o SendRecords(wm_idx, key, wm_lamports, r.outcomes)
                /\ wm_visits' = Append(wm_visits,
                       [idx |-> wm_idx, key |-> key, bal |-> 0,
                        outcome |-> IF r.result = "True" THEN "sent" ELSE "send_failed"])
                /\ wm_idx' = IF after = "next" THEN wm_idx + 1 ELSE wm_idx
                /\ wm_pc' = IF after = "next" THEN "distribute" ELSE "idle"
                /\ wm_result' = CASE after = "next" -> "running"
                                  [] after = "done" -> "True"
                                  [] OTHER -> "False"

(***************************************************************************)
(* WalletManager.recall_sol                                                *)
(***************************************************************************)
\* IEEE-754 double evaluation of int((float(v) / 1e9 - 0.001) * 1e9) loses
\* one lamport to truncation on these reported balances v (of Balances):
\* int((1000001/1e9 - 0.001) * 1e9) = 0 and int((1000003/1e9 - 0.001) * 1e9) = 2.
FloatTruncLoss(v) ==
    IF v \in {FeeReserveLamports + 1, FeeReserveLamports + 3} THEN 1 ELSE 0

\* lamports = int((balance - 0.001) * 1e9), balance = float(v) / 1e9
RecallLamports(v) == (v - FeeReserveLamports) - FloatTruncLoss(v)

\* Mutant: the `lamports <= 0` test is missing.
RecallSkips_NoLamportsTest(v) == v <= 0

\* The two skip tests of the loop body: `balance <= 0` and `lamports <= 0`.
RecallSkips(v) == v <= 0 \/ RecallLamports(v) <= 0

StartRecall(keys) ==
    /\ wm_pc = "idle"
    /\ wm_op' = "recall"
    /\ wm_keys' = keys
    /\ wm_visits' = <<>>
    /\ wm_sends' = <<>>
    /\ wm_idx' = 1
    /\ wm_lamports' = 0
    /\ UNCHANGED <<main_wallet_key, max_wallets, max_retries, current_round,
                   wallets, trading_wallets, next_key>>
    /\ IF main_wallet_key = ""
       THEN wm_result' = "False" /\ wm_pc' = "idle"
       ELSE IF Len(keys) = 0
       THEN wm_result' = "True" /\ wm_pc' = "idle"
       ELSE wm_result' = "running" /\ wm_pc' = "recall"

\* What recall_sol does after _retry_transaction returned `result` for the
\* wallet at wm_idx: "return" (False), "next" wallet, or "done" (True).
RecallAfterSend(result) ==
    IF result # "True" THEN "return"
    ELSE IF wm_idx = Len(wm_keys) THEN "done"
    ELSE "next"

\* `continue`: on to the next wallet, or out of the loop to `return True`.
RecallContinue == IF wm_idx = Len(wm_keys) THEN "done" ELSE "next"

\* One iteration of the for loop.  query is the get_balance outcome:
\* "raise", "None" (value None) or "value" (value = bal lamports).
RecallStep(query, bal, blockhashOk, fails) ==
    /\ wm_pc = "recall"
    /\ UNCHANGED <<main_wallet_key, max_wallets, max_retries, current_round,
                   wallets, trading_wallets, next_key, wm_op, wm_keys, wm_lamports>>
    /\ LET key == wm_keys[wm_idx]
           v == IF key \in trading_wallets /\ query = "value" THEN bal ELSE 0
           lamports == RecallLamports(v)
           r == RetryTransaction(fails)
           visit(outcome) == [idx |-> wm_idx, key |-> key, bal |-> v, outcome |-> outcome]
           outcome ==
               CASE key \notin trading_wallets -> "unknown"
                 [] query = "raise" -> "balance_error"
                 [] RecallSkips(v) -> "skipped"
                 [] ~blockhashOk -> "blockhash_error"
                 [] r.result = "True" -> "sent"
                 [] OTHER -> "send_failed"
           after ==
               CASE outcome \in {"unknown", "skipped"} -> RecallContinue
                 [] outcome \in {"balance_error", "blockhash_error"} -> "return"
                 [] OTHER -> RecallAfterSend(r.result)
       IN  /\ wm_visits' = Append(wm_visits, visit(outcome))
           /\ wm_sends' = IF outcome \in {"sent", "send_failed"}
                          THEN wm_sends \o SendRecords(wm_idx, key, lamports, r.outcomes)
                          ELSE wm_sends
           /\ wm_idx' = IF after = "next" THEN wm_idx + 1 ELSE wm_idx
           /\ wm_pc' = IF after = "next" THEN "recall" ELSE "idle"
           /\ wm_result' = CASE after = "next" -> "running"
                             [] after = "done" -> "True"
                             [] OTHER -> "False"

(***************************************************************************)
(* JitoBundler (src/src/trading/bundler.py)                                *)
(***************************************************************************)
\* self.bundle_size_limit
bundle_size_limit == 4

\* the slice width of create_bundle: transactions[i:i+3]
ChunkWidth == 3

Min(a, b) == IF a <= b THEN a ELSE b

\* Mutant: the input is sliced four at a time.
TxChunks_Width4(transactions) ==
    LET n == Len(transactions)
    IN  [k \in 1..((n + 3) \div 4) |->
            SubSeq(transactions, 4 * (k - 1) + 1, Min(4 * k, n))]

\* tx_chunks = [transactions[i:i+3] for i in range(0, len(transactions), 3)]
TxChunks(transactions) ==
    LET n == Len(transactions)
    IN  [k \in 1..((n + ChunkWidth - 1) \div ChunkWidth) |->
            SubSeq(transactions, ChunkWidth * (k - 1) + 1, Min(ChunkWidth * k, n))]

\* The caller's transactions, told apart by their position in the input.
CallerTx(i) == [kind |-> "caller", id |-> i]

\* bundle.add_tip_tx(...): the tip transaction _build_bundle appends.
TipTx == [kind |-> "tip", id |-> 0]

\* the id the relay gives the bundle built from chunk number k
BundleId(k) == "bundle-" \o ToString(k)

\* How one _build_bundle call can end.  "ok": send_bundle returned an id;
\* "empty_result": it returned a falsy result; "send_error",
\* "blockhash_error", "tip_error": the named call raised (tip_error also
\* when get_tip_accounts returns no account).
BuildOutcomes == {"ok", "empty_result", "send_error", "blockhash_error", "tip_error"}

\* _build_bundle(chunk) as chunk number k with the relay's outcome: the
\* bundle it assembled, whether send_bundle was called, what the function
\* logged and what it returns.
BuildBundle(k, chunk, outcome) ==
    IF Len(chunk) > bundle_size_limit
    THEN [chunk |-> k, txs |-> chunk, bundle |-> <<>>, submitted |-> FALSE,
          logged |-> "chunk_too_large", result |-> "None"]
    ELSE IF outcome \in {"blockhash_error", "tip_error"}
    THEN [chunk |-> k, txs |-> chunk, bundle |-> <<>>, submitted |-> FALSE,
          logged |-> outcome, result |-> "None"]
    ELSE [chunk |-> k, txs |-> chunk, bundle |-> Append(chunk, TipTx),
          submitted |-> TRUE,
          logged |-> IF outcome = "send_error" THEN outcome ELSE "",
          result |-> IF outcome = "ok" THEN BundleId(k) ELSE "None"]

StartCreateBundle(n) ==
    /\ bd_pc = "idle"
    /\ bd_txs' = [i \in 1..n |-> CallerTx(i)]
    /\ bd_chunk' = 1
    /\ bd_builds' = <<>>
    /\ IF n = 0
       THEN bd_pc' = "idle" /\ bd_result' = "None"
       ELSE bd_pc' = "chunks" /\ bd_result' = "running"

\* Mutant: a successful chunk does not end the loop; the last result is returned.
CreateBundleAfterBuild_NoEarlyReturn(result) ==
    IF bd_chunk = Len(TxChunks(bd_txs)) THEN "return" ELSE "next"

\* `if bundle_result: return bundle_result`, else the next chunk, else None.
CreateBundleAfterBuild(result) ==
    IF result # "None" THEN "return"
    ELSE IF bd_chunk = Len(TxChunks(bd_txs)) THEN "return"
    ELSE "next"

\* One iteration of `for chunk in tx_chunks`.
CreateBundleStep(outcome) ==
    /\ bd_pc = "chunks"
    /\ LET b == BuildBundle(bd_chunk, TxChunks(bd_txs)[bd_chunk], outcome)
           after == CreateBundleAfterBuild(b.result)
       IN  /\ bd_builds' = Append(bd_builds, b)
           /\ bd_chunk' = IF after = "next" THEN bd_chunk + 1 ELSE bd_chunk
           /\ bd_pc' = IF after = "next" THEN "chunks" ELSE "idle"
           /\ bd_result' = IF after = "next" THEN "running" ELSE b.result
    /\ UNCHANGED bd_txs

InitBundler ==
    /\ bd_pc = "idle"
    /\ bd_txs = <<>>
    /\ bd_chunk = 1
    /\ bd_builds = <<>>
    /\ bd_result = "none"

(***************************************************************************)
(* RiskManager (src/src/trading/risk_manager.py)                           *)
(*                                                                         *)
(* Prices are integers; thresholds, trailing distances and price impacts   *)
(* are in percent, so a Decimal fraction f is carried as 100 * f and       *)
(* stop_loss_price as stop100 = 100 * stop_loss_price.  The products the   *)
(* code forms in Decimal arithmetic are exact in these units.              *)
(***************************************************************************)
\* Decimal('0.95'): the default stop_loss_threshold, in percent
DefaultThresholdPct == 95

\* Decimal('0.02'): the default trailing_distance, in percent
DefaultDistancePct == 2

\* position_key = f"{wallet_address}:{token_address}"
PositionKeys == {"w1:t1", "w2:t1"}

Prices == {90, 100, 101}

\* entry_price arguments of add_position
EntryPrices == {100}

\* stop_loss_threshold / trailing_distance arguments in percent; 0 stands for
\* an argument that is None (or zero): `x or default` replaces both.
ThresholdOptions == {0}
DistanceOptions == {0, 10}

\* calculate_price_impact results, in percent
Impacts == {0, 2}

PositionAmount == 5

\* Position.__init__ via RiskManager.add_position
NewPosition(key, entry_price, amount, threshold, trailing_stop, distance) ==
    LET thr == IF threshold = 0 THEN DefaultThresholdPct ELSE threshold
        dist == IF distance = 0 THEN DefaultDistancePct ELSE distance
    IN  [key |-> key,
         entry_price |-> entry_price,
         amount |-> amount,
         stop_loss_threshold |-> thr,
         trailing_stop |-> trailing_stop,
         trailing_distance |-> dist,
         highest_price |-> entry_price,
         stop100 |-> entry_price * thr]

\* self.positions.pop(position_key, None), on the ordered entries
WithoutKey(ps, key) == SelectSeq(ps, LAMBDA q : q.key # key)

\* self.positions[position_key] = position: a new key goes last, an
\* existing key keeps its place.
WithPosition(ps, pos) ==
    IF \E i \in 1..Len(ps) : ps[i].key = pos.key
    THEN [i \in 1..Len(ps) |-> IF ps[i].key = pos.key THEN pos ELSE ps[i]]
    ELSE Append(ps, pos)

\* add_position and remove_position are called by the executor between
\* ticks (one caller context, spec section 5).
AddPosition(key, entry_price, threshold, trailing_stop, distance) ==
    /\ rm_pc # "tick"
    /\ positions' = WithPosition(positions,
           NewPosition(key, entry_price, PositionAmount, threshold, trailing_stop, distance))
    /\ UNCHANGED <<monitoring, rm_pc, rm_next, rm_used, rm_last, market_price, price_fell, rm_second>>

RemovePosition(key) ==
    /\ rm_pc # "tick"
    /\ positions' = WithoutKey(positions, key)
    /\ UNCHANGED <<monitoring, rm_pc, rm_next, rm_used, rm_last, market_price, price_fell, rm_second>>

\* The market moves (environment).
PriceMove(p) ==
    /\ p # market_price
    /\ market_price' = p
    /\ price_fell' = (price_fell \/ p < market_price)
    /\ UNCHANGED <<positions, monitoring, rm_pc, rm_next, rm_used, rm_last, rm_second>>

\* start_monitoring up to the first `for`: the flag is set and the first
\* tick creates its iterator over self.positions.values().
StartMonitoring ==
    /\ rm_pc = "stopped"
    /\ monitoring' = TRUE
    /\ rm_pc' = "tick"
    /\ rm_next' = 1
    /\ rm_used' = Len(positions)
    /\ UNCHANGED <<positions, rm_last, market_price, price_fell, rm_second>>

StopMonitoring ==
    /\ monitoring
    /\ monitoring' = FALSE
    /\ UNCHANGED <<positions, rm_pc, rm_next, rm_used, rm_last, market_price, price_fell, rm_second>>

\* The trailing-stop update of _check_positions on position pos.
\* priceType is the type of the value get_market_price returned: the
\* product `current_price * (Decimal('1') - ...)` raises TypeError for a
\* float, after highest_price has been assigned.
TrailingUpdate(pos, price, priceType, impact) ==
    IF pos.trailing_stop /\ price > pos.highest_price
    THEN IF priceType = "float"
         THEN [pos |-> [pos EXCEPT !.highest_price = price], raised |-> TRUE]
         ELSE [pos |-> [pos EXCEPT !.highest_price = price,
                                   !.stop100 = price * (100 - (pos.trailing_distance + 2 * impact))],
               raised |-> FALSE]
    ELSE [pos |-> pos, raised |-> FALSE]

\* current_price <= position.stop_loss_price
StopTriggered(pos, price) == 100 * price <= pos.stop100

\* _execute_stop_loss: the positions left after the emergency sell ended
\* with sellOutcome ("ok", or "raise" when execute_protected_trade raised).
AfterStopLoss(ps, pos, sellOutcome) ==
    IF sellOutcome = "ok" THEN WithoutKey(ps, pos.key) ELSE ps

NoCheck == [key |-> "", price |-> 0, outcome |-> "none", sell_amount |-> 0, sold |-> "none"]

\* Mutant: the loop body has no try/except of its own, so a query that
\* raises leaves _check_positions and the tick ends in the back-off sleep.
CheckPosition_AbortsTick(priceOutcome, priceType, impactOutcome, impact, sellOutcome) ==
    /\ rm_pc = "tick"
    /\ Len(positions) = rm_used
    /\ rm_next <= Len(positions)
    /\ LET pos == positions[rm_next]
           price == market_price
           upd == TrailingUpdate(pos, price, priceType, impact)
           kept == [positions EXCEPT ![rm_next] = upd.pos]
           last(outcome, amount, sold) ==
               [key |-> pos.key, price |-> price, outcome |-> outcome,
                sell_amount |-> amount, sold |-> sold]
       IN  IF priceOutcome = "raise" \/ impactOutcome = "raise"
           THEN /\ positions' = positions
                /\ rm_last' = last("query_error", 0, "none")
                /\ rm_pc' = "backoff"
           ELSE /\ rm_pc' = rm_pc
                /\ IF upd.raised
                   THEN /\ positions' = kept
                        /\ rm_last' = last("type_error", 0, "none")
                   ELSE IF StopTriggered(upd.pos, price)
                   THEN /\ positions' = AfterStopLoss(kept, upd.pos, sellOutcome)
                        /\ rm_last' = last("stop_loss", upd.pos.amount, sellOutcome)
                   ELSE /\ positions' = kept
                        /\ rm_last' = last("held", 0, "none")
    /\ rm_next' = rm_next + 1
    /\ UNCHANGED <<monitoring, rm_used, market_price, price_fell, rm_second>>

\* One iteration of `for position in self.positions.values()`.
\* priceOutcome / impactOutcome: "ok" or "raise" for the two DEX queries.
CheckPosition(priceOutcome, priceType, impactOutcome, impact, sellOutcome) ==
    /\ rm_pc = "tick"
    /\ Len(positions) = rm_used
    /\ rm_next <= Len(positions)
    /\ LET pos == positions[rm_next]
           price == market_price
           upd == TrailingUpdate(pos, price, priceType, impact)
           kept == [positions EXCEPT ![rm_next] = upd.pos]
           last(outcome, amount, sold) ==
               [key |-> pos.key, price |-> price, outcome |-> outcome,
                sell_amount |-> amount, sold |-> sold]
       IN  IF priceOutcome = "raise" \/ impactOutcome = "raise"
           THEN /\ positions' = positions
                /\ rm_last' = last("query_error", 0, "none")
           ELSE IF upd.raised
           THEN /\ positions' = kept
                /\ rm_last' = last("type_error", 0, "none")
           ELSE IF StopTriggered(upd.pos, price)
           THEN /\ positions' = AfterStopLoss(kept, upd.pos, sellOutcome)
                /\ rm_last' = last("stop_loss", upd.pos.amount, sellOutcome)
           ELSE /\ positions' = kept
                /\ rm_last' = last("held", 0, "none")
    /\ rm_next' = rm_next + 1
    /\ UNCHANGED <<monitoring, rm_pc, rm_used, market_price, price_fell, rm_second>>

\* The iterator is exhausted: _check_positions returns and the loop sleeps
\* monitor_interval.
TickEnd ==
    /\ rm_pc = "tick"
    /\ Len(positions) = rm_used
    /\ rm_next > Len(positions)
    /\ rm_pc' = "sleep"
    /\ UNCHANGED <<positions, monitoring, rm_next, rm_used, rm_last, market_price, price_fell, rm_second>>

\* Mutant: start_monitoring has no try/except around the tick, so the
\* exception leaves the coroutine and the loop is over.
TickAbort_EndsLoop ==
    /\ rm_pc = "tick"
    /\ Len(positions) # rm_used
    /\ rm_pc' = "stopped"
    /\ UNCHANGED <<positions, monitoring, rm_next, rm_used, rm_last, market_price, price_fell, rm_second>>

\* The dict changed size under the iterator: its next step raises
\* RuntimeError, which leaves _check_positions; start_monitoring logs it and
\* sleeps twice the interval.
TickAbort ==
    /\ rm_pc = "tick"
    /\ Len(positions) # rm_used
    /\ rm_pc' = "backoff"
    /\ UNCHANGED <<positions, monitoring, rm_next, rm_used, rm_last, market_price, price_fell, rm_second>>

\* Mutant: the loop is `while True`, the flag is never read.
Wake_IgnoresFlag ==
    /\ rm_pc \in {"sleep", "backoff"}
    /\ rm_pc' = "tick"
    /\ rm_next' = 1
    /\ rm_used' = Len(positions)
    /\ UNCHANGED <<positions, monitoring, rm_last, market_price, price_fell, rm_second>>

\* The sleep is over: `while self.monitoring` starts the next tick or ends
\* start_monitoring.
Wake ==
    /\ rm_pc \in {"sleep", "backoff"}
    /\ IF monitoring
       THEN /\ rm_pc' = "tick"
            /\ rm_next' = 1
            /\ rm_used' = Len(positions)
       ELSE /\ rm_pc' = "stopped"
            /\ UNCHANGED <<rm_next, rm_used>>
    /\ UNCHANGED <<positions, monitoring, rm_last, market_price, price_fell, rm_second>>

\* no second start_monitoring call is running
IdleLoop == [pc |-> "stopped", next |-> 1, used |-> 0]

InitRisk ==
    /\ positions = <<>>
    /\ monitoring = FALSE
    /\ rm_pc = "stopped"
    /\ rm_next = 1
    /\ rm_used = 0
    /\ rm_last = NoCheck
    /\ market_price = 100
    /\ price_fell = FALSE
    /\ rm_second = IdleLoop

(***************************************************************************)
(* TradingPattern (src/src/trading/trading_patterns.py)                    *)
(*                                                                         *)
(* execute_swap belongs to the DEX: each call either returns or raises,    *)
(* and the pattern sees nothing else of it.  Random amounts and delays do  *)
(* not influence control flow and are left out; the random sell decision   *)
(* of the pump pattern and the shuffle of the milkshake pattern are inputs.*)
(***************************************************************************)
\* config.get('buy_ratio', 2)
buy_ratio == 2

\* int(len(wallet_group) * 0.67)
BuyCount(n) == (n * 67) \div 100

Lookup(w) == [op |-> "lookup", wallet |-> w]
Buy(w) == [op |-> "buy", wallet |-> w]
Sell(w) == [op |-> "sell", wallet |-> w]

\* The body of `for wallet_key in wallet_group` of the pump pattern for
\* wallet w: the trading_wallets lookup, buy_ratio buys, and the sell when
\* random.random() > 0.3.
PumpWallet(w, sells) ==
    <<Lookup(w)>> \o [i \in 1..buy_ratio |-> Buy(w)]
                  \o (IF sells THEN <<Sell(w)>> ELSE <<>>)

RECURSIVE PumpPlan(_, _, _)
PumpPlan(group, sellers, i) ==
    IF i > Len(group) THEN <<>>
    ELSE PumpWallet(group[i], i \in sellers) \o PumpPlan(group, sellers, i + 1)

\* The milkshake pattern after the shuffle: lookups of the buy group, lookups
\* of the sell group, the buys, then the sells.
MilkshakePlan(group) ==
    LET n == Len(group)
        buy_group == SubSeq(group, 1, BuyCount(n))
        sell_group == SubSeq(group, BuyCount(n) + 1, n)
    IN  [i \in 1..Len(buy_group) |-> Lookup(buy_group[i])]
          \o [i \in 1..Len(sell_group) |-> Lookup(sell_group[i])]
          \o [i \in 1..Len(buy_group) |-> Buy(buy_group[i])]
          \o [i \in 1..Len(sell_group) |-> Sell(sell_group[i])]

\* random.shuffle(wallet_group): any rearrangement of the list
Shuffles(group) ==
    LET n == Len(group)
        perms == {f \in [1..n -> 1..n] : \A i, j \in 1..n : f[i] = f[j] => i = j}
    IN  {[i \in 1..n |-> group[f[i]]] : f \in perms}

SwapRecord(w, op, ok) == [wallet |-> w, is_buy |-> (op = "buy"), ok |-> ok]

PatternIdle == pt_pc \in {"idle", "done"}

StartPattern(op, group, pc) ==
    /\ PatternIdle
    /\ pt_op' = op
    /\ pt_pc' = pc
    /\ pt_group' = group
    /\ pt_plan' = <<>>
    /\ pt_idx' = 1
    /\ pt_pending' = {}
    /\ pt_rounds' = 0
    /\ pt_swaps' = <<>>
    /\ pt_result' = "running"

\* execute_pump_pattern / execute_milkshake_pattern up to the price query
StartPump(group) == StartPattern("pump", group, "price") /\ pt_duration' = 0

StartMilkshake(group) == StartPattern("milkshake", group, "price") /\ pt_duration' = 0

\* The `except Exception: log; raise` that wraps every pattern body.
PatternRaises ==
    /\ pt_result' = "raised"
    /\ pt_pc' = "done"

\* base_price = await self.dex.get_market_price(), then what is decided
\* before the first swap
PumpPrice(priceOk, sellers) ==
    /\ pt_op = "pump" /\ pt_pc = "price"
    /\ IF priceOk
       THEN /\ pt_plan' = PumpPlan(pt_group, sellers, 1)
            /\ pt_pc' = "swaps"
            /\ UNCHANGED pt_result
       ELSE /\ PatternRaises
            /\ UNCHANGED pt_plan
    /\ UNCHANGED <<pt_op, pt_group, pt_idx, pt_pending, pt_rounds, pt_duration, pt_swaps>>

MilkshakePrice(priceOk, shuffled) ==
    /\ pt_op = "milkshake" /\ pt_pc = "price"
    /\ IF priceOk
       THEN /\ pt_group' = shuffled
            /\ pt_plan' = MilkshakePlan(shuffled)
            /\ pt_pc' = "swaps"
            /\ UNCHANGED pt_result
       ELSE /\ PatternRaises
            /\ UNCHANGED <<pt_group, pt_plan>>
    /\ UNCHANGED <<pt_op, pt_idx, pt_pending, pt_rounds, pt_duration, pt_swaps>>

\* What a pattern does after an awaited execute_swap ended: go on when it
\* returned, leave through the except clause when it raised.
AfterSwap(ok) == IF ok THEN "next" ELSE "raise"

\* The next entry of the plan: a trading_wallets lookup (KeyError for a key
\* the manager does not hold) or an awaited swap.
PlanStep(swapOk) ==
    /\ pt_pc = "swaps"
    /\ pt_idx <= Len(pt_plan)
    /\ LET e == pt_plan[pt_idx]
       IN  IF e.op = "lookup"
           THEN /\ UNCHANGED pt_swaps
                /\ IF e.wallet \in trading_wallets
                   THEN /\ pt_idx' = pt_idx + 1
                        /\ UNCHANGED <<pt_pc, pt_result>>
                   ELSE /\ PatternRaises
                        /\ UNCHANGED pt_idx
           ELSE /\ pt_swaps' = Append(pt_swaps, SwapRecord(e.wallet, e.op, swapOk))
                /\ IF AfterSwap(swapOk) = "next"
                   THEN /\ pt_idx' = pt_idx + 1
                        /\ UNCHANGED <<pt_pc, pt_result>>
                   ELSE /\ PatternRaises
                        /\ UNCHANGED pt_idx
    /\ UNCHANGED <<pt_op, pt_group, pt_plan, pt_pending, pt_rounds, pt_duration>>

\* The plan is exhausted: "Completed ... pattern execution".
PatternReturn ==
    /\ pt_pc = "swaps"
    /\ pt_idx > Len(pt_plan)
    /\ pt_result' = "completed"
    /\ pt_pc' = "done"
    /\ UNCHANGED <<pt_op, pt_group, pt_plan, pt_idx, pt_pending, pt_rounds,
                   pt_duration, pt_swaps>>

\* execute_high_frequency_pattern up to the first loop test
StartHighFrequency(group, duration_seconds) ==
    /\ StartPattern("high_frequency", group, "hf_loop")
    /\ pt_duration' = duration_seconds

\* Task i of a pass is the swap of wallet_group[i]: a buy for the first
\* BuyCount wallets, a sell for the others.
BuyTasks == 1..BuyCount(Len(pt_group))
SellTasks == (BuyCount(Len(pt_group)) + 1)..Len(pt_group)

\* Mutant: one asyncio.gather over buy_tasks + sell_tasks.
HfLoopTest_OneGather(elapsed) ==
    /\ pt_pc = "hf_loop"
    /\ IF elapsed < pt_duration
       THEN /\ pt_rounds < MaxHfRounds
            /\ pt_rounds' = pt_rounds + 1
            /\ IF \A i \in 1..Len(pt_group) : pt_group[i] \in trading_wallets
               THEN /\ pt_pc' = "hf_buys"
                    /\ pt_pending' = BuyTasks \cup SellTasks
                    /\ UNCHANGED pt_result
               ELSE /\ PatternRaises
                    /\ UNCHANGED pt_pending
       ELSE /\ pt_result' = "completed"
            /\ pt_pc' = "done"
            /\ UNCHANGED <<pt_rounds, pt_pending>>
    /\ UNCHANGED <<pt_op, pt_group, pt_plan, pt_idx, pt_duration, pt_swaps>>

\* `while (datetime.now() - start_time).seconds < duration_seconds`, and in
\* the loop the creation of the swap coroutines, which looks every wallet up.
\* elapsed is the clock's reading.
HfLoopTest(elapsed) ==
    /\ pt_pc = "hf_loop"
    /\ IF elapsed < pt_duration
       THEN /\ pt_rounds < MaxHfRounds
            /\ pt_rounds' = pt_rounds + 1
            /\ IF \A i \in 1..Len(pt_group) : pt_group[i] \in trading_wallets
               THEN /\ pt_pc' = "hf_buys"
                    /\ pt_pending' = BuyTasks
                    /\ UNCHANGED pt_result
               ELSE /\ PatternRaises
                    /\ UNCHANGED pt_pending
       ELSE /\ pt_result' = "completed"
            /\ pt_pc' = "done"
            /\ UNCHANGED <<pt_rounds, pt_pending>>
    /\ UNCHANGED <<pt_op, pt_group, pt_plan, pt_idx, pt_duration, pt_swaps>>

\* One swap of the running asyncio.gather ends.  gather raises the first
\* exception into the pattern at once and does not cancel its other tasks:
\* they keep running after the pattern has raised.
HfSwapDone(i, ok) ==
    /\ pt_pc \in {"hf_buys", "hf_sells", "hf_orphans"}
    /\ i \in pt_pending
    /\ pt_pending' = pt_pending \ {i}
    /\ pt_swaps' = Append(pt_swaps,
           SwapRecord(pt_group[i], IF i \in BuyTasks THEN "buy" ELSE "sell", ok))
    /\ IF pt_pc # "hf_orphans" /\ AfterSwap(ok) = "raise"
       THEN /\ pt_result' = "raised"
            /\ pt_pc' = "hf_orphans"
       ELSE UNCHANGED <<pt_pc, pt_result>>
    /\ UNCHANGED <<pt_op, pt_group, pt_plan, pt_idx, pt_rounds, pt_duration>>

\* gather returned: after the buys the sells start, after the sells the loop
\* test follows; the tasks a raised gather left behind have all ended.
HfWaveDone ==
    /\ pt_pc \in {"hf_buys", "hf_sells", "hf_orphans"}
    /\ pt_pending = {}
    /\ IF pt_pc = "hf_buys"
       THEN /\ pt_pc' = "hf_sells"
            /\ pt_pending' = SellTasks
       ELSE /\ pt_pc' = IF pt_pc = "hf_sells" THEN "hf_loop" ELSE "done"
            /\ UNCHANGED pt_pending
    /\ UNCHANGED <<pt_op, pt_group, pt_plan, pt_idx, pt_rounds, pt_duration,
                   pt_swaps, pt_result>>

InitPattern ==
    /\ pt_op = "none"
    /\ pt_pc = "idle"
    /\ pt_group = <<>>
    /\ pt_plan = <<>>
    /\ pt_idx = 1
    /\ pt_pending = {}
    /\ pt_rounds = 0
    /\ pt_duration = 0
    /\ pt_swaps = <<>>
    /\ pt_result = "none"

(***************************************************************************)
(* TradeExecutor rounds (src/src/trading/trade_executor.py)                *)
(*                                                                         *)
(* A round calls the wallet manager and the patterns; its steps are the    *)
(* steps of those calls, taken while the round waits for them.             *)
(***************************************************************************)
\* min(10, len(wallet_group)): tasks of one high-frequency batch
BatchLimit == 10

\* initial_amount of a round, in half lamports
RoundAmounts == {3}

RoundIdle == rd_pc \in {"idle", "done"}

\* The round's first step: create_wallet_group(size).  Its ValueError leaves
\* the round through the except clause, which logs and re-raises.
RoundCreate(kind, size) ==
    /\ RoundIdle
    /\ CreateWalletGroup(size)
    /\ rd_kind' = kind
    /\ rd_funded' = "none"
    /\ rd_patterns' = <<>>
    /\ rd_batch' = 0
    /\ rd_passes' = 0
    /\ rd_calls' = <<"create_wallet_group">>
    /\ IF wm_result' = "ok"
       THEN /\ rd_group' = PairsOf(wm_keys')
            /\ rd_pc' = "distribute"
            /\ rd_result' = "running"
       ELSE /\ rd_group' = <<>>
            /\ rd_pc' = "done"
            /\ rd_result' = "raised"
    /\ UNCHANGED <<wallet_group_size, hf_enabled>>

\* execute_trading_round up to the return of create_wallet_group
StartTradingRound ==
    /\ RoundCreate("trading", wallet_group_size)
    /\ UNCHANGED ptVars

\* execute_high_frequency_round up to the return of create_wallet_group, or
\* its early return when high-frequency trading is not enabled
StartHighFrequencyRound ==
    /\ IF hf_enabled
       THEN RoundCreate("high_frequency", wallet_group_size * 2)
       ELSE /\ RoundIdle
            /\ rd_kind' = "high_frequency"
            /\ rd_pc' = "done"
            /\ rd_result' = "returned"
            /\ rd_group' = <<>>
            /\ rd_funded' = "none"
            /\ rd_patterns' = <<>>
            /\ rd_batch' = 0
            /\ rd_passes' = 0
            /\ rd_calls' = <<>>
            /\ UNCHANGED <<wallet_group_size, hf_enabled, wmVars>>
    /\ UNCHANGED ptVars

\* await self.wallet_manager.distribute_sol(wallet_group, initial_amount)
RoundDistribute(halfLamports) ==
    /\ rd_pc = "distribute"
    /\ StartDistribute(rd_group, halfLamports)
    /\ rd_pc' = "distributing"
    /\ rd_calls' = Append(rd_calls, "distribute_sol")
    /\ UNCHANGED <<wallet_group_size, hf_enabled, rd_kind, rd_group, rd_funded,
                   rd_patterns, rd_batch, rd_passes, rd_result>>
    /\ UNCHANGED ptVars

RoundDistributeStep(blockhashOk, fails) ==
    /\ rd_pc = "distributing"
    /\ DistributeStep(blockhashOk, fails)
    /\ UNCHANGED <<rdVars, ptVars>>

\* distribute_sol has returned.  The round does not look at the value; the
\* model keeps it in rd_funded.
RoundFunded ==
    /\ rd_pc = "distributing"
    /\ wm_pc = "idle"
    /\ rd_funded' = wm_result
    /\ rd_pc' = "loop"
    /\ UNCHANGED <<wallet_group_size, hf_enabled, rd_calls, rd_kind, rd_group,
                   rd_patterns, rd_batch, rd_passes, rd_result>>
    /\ UNCHANGED <<wmVars, ptVars>>

\* the TradingPattern method a round calls for the drawn pattern
PatternCall(choice) ==
    IF choice = "pump" THEN "execute_pump_pattern" ELSE "execute_milkshake_pattern"

\* random.choice(['pump', 'milkshake']) / the is_buy draw of a batch task
StartChosenPattern(choice, group) ==
    IF choice = "pump" THEN StartPump(group) ELSE StartMilkshake(group)

\* Trading round, `while datetime.now() < end_time` holds: the next pattern
\* is started on the whole group.
RoundNextPattern(choice) ==
    /\ rd_kind = "trading" /\ rd_pc = "loop"
    /\ rd_passes < MaxPasses
    /\ StartChosenPattern(choice, rd_group)
    /\ rd_patterns' = Append(rd_patterns, choice)
    /\ rd_passes' = rd_passes + 1
    /\ rd_pc' = "pattern"
    /\ rd_calls' = Append(rd_calls, PatternCall(choice))
    /\ UNCHANGED <<wallet_group_size, hf_enabled, rd_kind, rd_group, rd_funded,
                   rd_batch, rd_result>>
    /\ UNCHANGED wmVars

\* High-frequency round, `while datetime.now() < burst_end` holds: a batch of
\* min(10, len(wallet_group)) pattern tasks is gathered.
RoundNextBatch ==
    /\ rd_kind = "high_frequency" /\ rd_pc = "loop"
    /\ rd_passes < MaxPasses
    /\ rd_batch' = Min(BatchLimit, Len(rd_group))
    /\ rd_passes' = rd_passes + 1
    /\ rd_pc' = "batch"
    /\ UNCHANGED <<wallet_group_size, hf_enabled, rd_calls, rd_kind, rd_group, rd_funded,
                   rd_patterns, rd_result>>
    /\ UNCHANGED <<wmVars, ptVars>>

\* One task of the batch: a pattern on the one-element list [wallet_key] of
\* a randomly chosen member i of the group.  The tasks of a batch are
\* followed one after the other; how their swaps interleave is not
\* represented.
RoundTaskStart(i, choice) ==
    /\ rd_pc = "batch"
    /\ rd_batch > 0
    /\ i \in 1..Len(rd_group)
    /\ StartChosenPattern(choice, <<rd_group[i]>>)
    /\ rd_patterns' = Append(rd_patterns, choice)
    /\ rd_batch' = rd_batch - 1
    /\ rd_pc' = "pattern"
    /\ rd_calls' = Append(rd_calls, PatternCall(choice))
    /\ UNCHANGED <<wallet_group_size, hf_enabled, rd_kind, rd_group, rd_funded,
                   rd_passes, rd_result>>
    /\ UNCHANGED wmVars

\* A step of the pattern call the round is waiting for.
RoundPatternStep(step) ==
    /\ rd_pc = "pattern"
    /\ step
    /\ UNCHANGED <<rdVars, wmVars>>

\* Mutant: the distribute_sol call sits inside the while loop, so the group
\* is funded again after every pattern.
RoundAfterPattern_Refunds ==
    /\ rd_pc = "pattern"
    /\ pt_pc = "done"
    /\ rd_result' = IF pt_result = "raised" THEN "raised" ELSE rd_result
    /\ rd_pc' = IF rd_kind = "high_frequency" THEN "batch"
                ELSE IF pt_result = "raised" THEN "done"
                ELSE "distribute"
    /\ UNCHANGED <<wallet_group_size, hf_enabled, rd_calls, rd_kind, rd_group, rd_funded,
                   rd_patterns, rd_batch, rd_passes>>
    /\ UNCHANGED <<wmVars, ptVars>>

\* The awaited pattern call has ended.  An exception leaves a trading round
\* through its except clause.  In a batch, gather raises the first exception
\* into the round while the other tasks of the batch still run.
RoundAfterPattern ==
    /\ rd_pc = "pattern"
    /\ pt_pc = "done"
    /\ rd_result' = IF pt_result = "raised" THEN "raised" ELSE rd_result
    /\ rd_pc' = IF rd_kind = "high_frequency" THEN "batch"
                ELSE IF pt_result = "raised" THEN "done"
                ELSE "loop"
    /\ UNCHANGED <<wallet_group_size, hf_enabled, rd_calls, rd_kind, rd_group, rd_funded,
                   rd_patterns, rd_batch, rd_passes>>
    /\ UNCHANGED <<wmVars, ptVars>>

\* All tasks of the batch have ended.
RoundBatchDone ==
    /\ rd_pc = "batch"
    /\ rd_batch = 0
    /\ rd_pc' = IF rd_result = "raised" THEN "done" ELSE "loop"
    /\ UNCHANGED <<wallet_group_size, hf_enabled, rd_calls, rd_kind, rd_group, rd_funded,
                   rd_patterns, rd_batch, rd_passes, rd_result>>
    /\ UNCHANGED <<wmVars, ptVars>>

\* The loop condition is false: await self.wallet_manager.recall_sol(wallet_group)
RoundRecall ==
    /\ rd_pc = "loop"
    /\ StartRecall(rd_group)
    /\ rd_pc' = "recalling"
    /\ rd_calls' = Append(rd_calls, "recall_sol")
    /\ UNCHANGED <<wallet_group_size, hf_enabled, rd_kind, rd_group, rd_funded,
                   rd_patterns, rd_batch, rd_passes, rd_result>>
    /\ UNCHANGED ptVars

RoundRecallStep(query, bal, blockhashOk, fails) ==
    /\ rd_pc = "recalling"
    /\ RecallStep(query, bal, blockhashOk, fails)
    /\ UNCHANGED <<rdVars, ptVars>>

\* recall_sol has returned: the round logs its value and completes.
RoundRecalled ==
    /\ rd_pc = "recalling"
    /\ wm_pc = "idle"
    /\ rd_result' = "completed"
    /\ rd_pc' = "done"
    /\ UNCHANGED <<wallet_group_size, hf_enabled, rd_calls, rd_kind, rd_group, rd_funded,
                   rd_patterns, rd_batch, rd_passes>>
    /\ UNCHANGED <<wmVars, ptVars>>

\* No round is running.
InitNoRound ==
    /\ rd_kind = "none"
    /\ rd_pc = "idle"
    /\ rd_group = <<>>
    /\ rd_funded = "none"
    /\ rd_patterns = <<>>
    /\ rd_batch = 0
    /\ rd_passes = 0
    /\ rd_result = "none"
    /\ rd_calls = <<>>

\* No start_trading_session call is running.
InitNoTradingSession ==
    /\ ss_pc = "idle"
    /\ ss_result = "none"

\* Executor configuration of the runs that do not involve rounds.
InitExecutor ==
    /\ wallet_group_size = GroupSize
    /\ hf_enabled = FALSE
    /\ InitNoRound
    /\ InitNoTradingSession

(***************************************************************************)
(* MEVProtection (src/src/trading/mev_protection.py).                      *)
(*                                                                         *)
(* Amounts are Decimal values carried in units of 10^-6 SOL.  A            *)
(* transaction dict is a record; `role` is bookkeeping that lets the       *)
(* properties tell the caller's dict from the ones the module builds, and  *)
(* `wallet` is 0 for a dict without a 'wallet' key.                        *)
(***************************************************************************)
\* Decimal('0.001'): the smallest backrun amount.
MinBackrunMicro == 1000

\* Decimal('0.0001'): the amount of a dummy transaction.
DummyMicro == 100

\* range(2): dummy transactions built by _create_sandwich_protection.
DummyCount == 2

\* protection_txs[:3]
ProtectionLimit == 3

\* The main_transaction arguments of the runs.  A dict without 'is_buy'
\* behaves as is_buy = True (main_tx.get('is_buy', True)).
MainAmounts == {50000, 1000000}

MainTxs ==
    {[role |-> "main", amount |-> a, is_buy |-> b, wallet |-> 0] :
        a \in MainAmounts, b \in BOOLEAN}

\* The wallet_group arguments of the runs.
MevGroups == {<<>>, <<1>>, <<1, 2>>}

Max(a, b) == IF a >= b THEN a ELSE b

\* _create_backrun_transaction: max(trade_amount * Decimal('0.01'),
\* Decimal('0.001')) in the opposite direction of the main transaction.
BackrunTx(main_tx) ==
    [role |-> "backrun",
     amount |-> Max(main_tx.amount \div 100, MinBackrunMicro),
     is_buy |-> ~main_tx.is_buy,
     wallet |-> 0]

\* One pass of the loop of _create_sandwich_protection; `dir` and `pick` are
\* what random.choice returns.
DummyTx(dir, pick) ==
    [role |-> "dummy", amount |-> DummyMicro, is_buy |-> dir, wallet |-> pick]

\* random.choice(wallet_group) raises IndexError on an empty sequence.
ChoiceRaises(wallet_group) == wallet_group = <<>>

WalletsOf(wallet_group) == {wallet_group[i] : i \in 1..Len(wallet_group)}

\* _create_sandwich_protection, given the random choices of its two passes.
SandwichTxs(dirs, picks) == [i \in 1..DummyCount |-> DummyTx(dirs[i], picks[i])]

\* _create_protection_transactions: the backrun dict is never falsy, so it is
\* always appended; the result is cut to three entries.
ProtectionTxs(main_tx, dirs, picks) ==
    SubSeq(<<BackrunTx(main_tx)>> \o SandwichTxs(dirs, picks), 1, ProtectionLimit)

\* create_protected_bundle(main_transaction, wallet_group), the whole call.
CreateProtectedBundle(main_tx, wallet_group) ==
    /\ mv_main' = main_tx
    /\ mv_group' = wallet_group
    /\ IF ChoiceRaises(wallet_group)
       THEN /\ mv_bundle' = <<>>
            /\ mv_result' = "IndexError"
       ELSE \E dirs \in [1..DummyCount -> BOOLEAN],
               picks \in [1..DummyCount -> WalletsOf(wallet_group)] :
              /\ mv_bundle' \in
                    Shuffles(<<main_tx>> \o ProtectionTxs(main_tx, dirs, picks))
              /\ mv_result' = "bundle"

\* MEVProtection.__init__: no call made yet.
InitMev ==
    /\ mv_main = "none"
    /\ mv_group = <<>>
    /\ mv_bundle = <<>>
    /\ mv_result = "none"

(***************************************************************************)
(* VolumeTracker (src/src/analytics/volume_tracker.py).                    *)
(*                                                                         *)
(* Amounts, prices and volumes are Python floats (binary64).  A float is   *)
(* carried as <<c, u>>: the double that lies u representable values above  *)
(* the double nearest to c/100.  F(c) is therefore what the literal c/100  *)
(* denotes (F(10) is 0.1, F(10000) is 100.0), and two floats are equal     *)
(* exactly when their pairs are.  The arithmetic below gives, for the      *)
(* operands that occur in runs of up to MaxTrades + 1 trades, the          *)
(* correctly rounded IEEE-754 result; the u of each result was computed    *)
(* by running the operation on binary64 operands.                          *)
(*                                                                         *)
(* An Optional value is None or Some(v).                                   *)
(***************************************************************************)
None == <<>>

Some(v) == <<v>>

F(c) == <<c, 0>>

\* x + y: the u of the sum wherever an operand or the sum is off the
\* nearest-double grid (0.1 + 0.2 is one step above the double nearest 0.3).
AddUlp(x, y) ==
  CASE x = <<0, 0>> /\ y = <<30, 1>> -> 1
    [] x = <<0, 0>> /\ y = <<60, 1>> -> 1
    [] x = <<0, 0>> /\ y = <<70, 1>> -> 1
    [] x = <<0, 0>> /\ y = <<80, -1>> -> -1
    [] x = <<0, 0>> /\ y = <<90, -1>> -> -1
    [] x = <<0, 0>> /\ y = <<90, 1>> -> 1
    [] x = <<0, 0>> /\ y = <<100, -1>> -> -1
    [] x = <<0, 0>> /\ y = <<110, -1>> -> -1
    [] x = <<0, 0>> /\ y = <<10020, -1>> -> -1
    [] x = <<0, 0>> /\ y = <<10030, -1>> -> -1
    [] x = <<0, 0>> /\ y = <<10040, -1>> -> -1
    [] x = <<0, 0>> /\ y = <<10050, -1>> -> -1
    [] x = <<0, 0>> /\ y = <<10060, 1>> -> 1
    [] x = <<0, 0>> /\ y = <<10070, -1>> -> -1
    [] x = <<0, 0>> /\ y = <<10090, -1>> -> -1
    [] x = <<0, 0>> /\ y = <<20030, -1>> -> -1
    [] x = <<0, 0>> /\ y = <<20040, -1>> -> -1
    [] x = <<0, 0>> /\ y = <<20060, 1>> -> 1
    [] x = <<10, 0>> /\ y = <<20, 0>> -> 1
    [] x = <<10, 0>> /\ y = <<30, 1>> -> 0
    [] x = <<10, 0>> /\ y = <<60, 1>> -> 1
    [] x = <<10, 0>> /\ y = <<70, 0>> -> -1
    [] x = <<10, 0>> /\ y = <<90, -1>> -> -1
    [] x = <<10, 0>> /\ y = <<10010, 0>> -> -1
    [] x = <<10, 0>> /\ y = <<10020, -1>> -> -1
    [] x = <<10, 0>> /\ y = <<10030, 0>> -> -1
    [] x = <<10, 0>> /\ y = <<10040, -1>> -> -1
    [] x = <<10, 0>> /\ y = <<10060, 0>> -> -1
    [] x = <<10, 0>> /\ y = <<20020, 0>> -> -1
    [] x = <<20, 0>> /\ y = <<10, 0>> -> 1
    [] x = <<20, 0>> /\ y = <<30, 1>> -> 0
    [] x = <<20, 0>> /\ y = <<40, 0>> -> 1
    [] x = <<20, 0>> /\ y = <<60, 1>> -> 0
    [] x = <<20, 0>> /\ y = <<70, 0>> -> -1
    [] x = <<20, 0>> /\ y = <<90, -1>> -> -1
    [] x = <<20, 0>> /\ y = <<10020, -1>> -> -1
    [] x = <<20, 0>> /\ y = <<10040, -1>> -> 0
    [] x = <<20, 0>> /\ y = <<10040, 0>> -> 1
    [] x = <<20, 0>> /\ y = <<20010, 0>> -> -1
    [] x = <<20, 0>> /\ y = <<20020, 0>> -> -1
    [] x = <<30, 0>> /\ y = <<30, 1>> -> 1
    [] x = <<30, 0>> /\ y = <<60, 0>> -> -1
    [] x = <<30, 0>> /\ y = <<60, 1>> -> 1
    [] x = <<30, 0>> /\ y = <<90, -1>> -> 0
    [] x = <<30, 0>> /\ y = <<10010, 0>> -> -1
    [] x = <<30, 0>> /\ y = <<10020, -1>> -> -1
    [] x = <<30, 0>> /\ y = <<10040, -1>> -> -1
    [] x = <<30, 0>> /\ y = <<10060, 0>> -> -1
    [] x = <<30, 0>> /\ y = <<20030, 0>> -> 1
    [] x = <<30, 1>> /\ y = <<10, 0>> -> 0
    [] x = <<30, 1>> /\ y = <<20, 0>> -> 0
    [] x = <<30, 1>> /\ y = <<30, 0>> -> 1
    [] x = <<30, 1>> /\ y = <<30, 1>> -> 1
    [] x = <<30, 1>> /\ y = <<40, 0>> -> 1
    [] x = <<30, 1>> /\ y = <<50, 0>> -> 0
    [] x = <<30, 1>> /\ y = <<60, 0>> -> 0
    [] x = <<30, 1>> /\ y = <<10000, 0>> -> 0
    [] x = <<30, 1>> /\ y = <<10010, 0>> -> -1
    [] x = <<30, 1>> /\ y = <<10020, 0>> -> 0
    [] x = <<30, 1>> /\ y = <<10030, 0>> -> 0
    [] x = <<30, 1>> /\ y = <<20000, 0>> -> 0
    [] x = <<40, 0>> /\ y = <<20, 0>> -> 1
    [] x = <<40, 0>> /\ y = <<30, 1>> -> 1
    [] x = <<40, 0>> /\ y = <<10020, 0>> -> 1
    [] x = <<50, 0>> /\ y = <<30, 1>> -> 0
    [] x = <<60, 0>> /\ y = <<30, 0>> -> -1
    [] x = <<60, 0>> /\ y = <<30, 1>> -> 0
    [] x = <<60, 0>> /\ y = <<10010, 0>> -> -1
    [] x = <<60, 0>> /\ y = <<10030, 0>> -> -1
    [] x = <<60, 1>> /\ y = <<10, 0>> -> 1
    [] x = <<60, 1>> /\ y = <<20, 0>> -> 0
    [] x = <<60, 1>> /\ y = <<30, 0>> -> 1
    [] x = <<60, 1>> /\ y = <<10000, 0>> -> 0
    [] x = <<70, 0>> /\ y = <<10, 0>> -> -1
    [] x = <<70, 0>> /\ y = <<20, 0>> -> -1
    [] x = <<90, -1>> /\ y = <<10, 0>> -> -1
    [] x = <<90, -1>> /\ y = <<20, 0>> -> -1
    [] x = <<90, -1>> /\ y = <<30, 0>> -> 0
    [] x = <<90, -1>> /\ y = <<10000, 0>> -> 0
    [] x = <<10000, 0>> /\ y = <<30, 1>> -> 0
    [] x = <<10000, 0>> /\ y = <<60, 1>> -> 0
    [] x = <<10000, 0>> /\ y = <<90, -1>> -> 0
    [] x = <<10000, 0>> /\ y = <<10020, -1>> -> 0
    [] x = <<10000, 0>> /\ y = <<10040, -1>> -> -1
    [] x = <<10010, 0>> /\ y = <<10, 0>> -> -1
    [] x = <<10010, 0>> /\ y = <<30, 0>> -> -1
    [] x = <<10010, 0>> /\ y = <<30, 1>> -> -1
    [] x = <<10010, 0>> /\ y = <<60, 0>> -> -1
    [] x = <<10010, 0>> /\ y = <<10030, 0>> -> -1
    [] x = <<10020, -1>> /\ y = <<10, 0>> -> -1
    [] x = <<10020, -1>> /\ y = <<20, 0>> -> -1
    [] x = <<10020, -1>> /\ y = <<30, 0>> -> -1
    [] x = <<10020, -1>> /\ y = <<10000, 0>> -> 0
    [] x = <<10020, 0>> /\ y = <<30, 1>> -> 0
    [] x = <<10020, 0>> /\ y = <<40, 0>> -> 1
    [] x = <<10030, 0>> /\ y = <<10, 0>> -> -1
    [] x = <<10030, 0>> /\ y = <<30, 1>> -> 0
    [] x = <<10030, 0>> /\ y = <<60, 0>> -> -1
    [] x = <<10030, 0>> /\ y = <<10010, 0>> -> -1
    [] x = <<10040, -1>> /\ y = <<10, 0>> -> -1
    [] x = <<10040, -1>> /\ y = <<20, 0>> -> 0
    [] x = <<10040, -1>> /\ y = <<30, 0>> -> -1
    [] x = <<10040, -1>> /\ y = <<10000, 0>> -> -1
    [] x = <<10040, 0>> /\ y = <<20, 0>> -> 1
    [] x = <<10060, 0>> /\ y = <<10, 0>> -> -1
    [] x = <<10060, 0>> /\ y = <<30, 0>> -> -1
    [] x = <<20000, 0>> /\ y = <<30, 1>> -> 0
    [] x = <<20010, 0>> /\ y = <<20, 0>> -> -1
    [] x = <<20020, 0>> /\ y = <<10, 0>> -> -1
    [] x = <<20020, 0>> /\ y = <<20, 0>> -> -1
    [] x = <<20030, 0>> /\ y = <<30, 0>> -> 1
    [] OTHER -> 0

FAdd(x, y) == <<x[1] + y[1], AddUlp(x, y)>>

\* x - y, x * y and x / y are exact roundings for every operand pair the
\* ledger meets: the results lie on the grid of hundredths with u = 0.
FSub(x, y) == <<x[1] - y[1], 0>>

FMul(x, y) == <<(x[1] * y[1]) \div 100, 0>>

FDiv(x, y) == <<(x[1] * 100) \div y[1], 0>>

\* x > 0 and x <= 0
FPositive(x) == x[1] > 0

\* bool(x) of a float: false only for 0.0
FTruthy(x) == x[1] # 0 \/ x[2] # 0

\* total_volume / 1000.0 * 100: the u of the two roundings together.
ProgressUlp(v) ==
  CASE v = <<30, 1>> -> 1
    [] v = <<60, 1>> -> 1
    [] v = <<70, 0>> -> -1
    [] v = <<70, 1>> -> 0
    [] v = <<80, -1>> -> -1
    [] v = <<90, -1>> -> -1
    [] v = <<90, 1>> -> 1
    [] v = <<100, -1>> -> -2
    [] v = <<110, -1>> -> -1
    [] v = <<10020, -1>> -> -1
    [] v = <<10030, -1>> -> 0
    [] v = <<10040, -1>> -> 0
    [] v = <<10040, 0>> -> 1
    [] v = <<10050, -1>> -> -1
    [] v = <<10060, 0>> -> -1
    [] v = <<10060, 1>> -> 0
    [] v = <<10070, -1>> -> -1
    [] v = <<10090, -1>> -> 0
    [] v = <<20030, -1>> -> -1
    [] v = <<20040, -1>> -> -1
    [] v = <<20060, 1>> -> 1
    [] v = <<30010, 0>> -> 1
    [] v = <<30020, 0>> -> -1
    [] v = <<110000, 0>> -> 1
    [] OTHER -> 0

\* (total_volume / self.target_volume * 100)
FProgress(v, target) == <<(v[1] * 10000) \div target[1], ProgressUlp(v)>>

Front(s) == SubSeq(s, 1, Len(s) - 1)

Last(s) == s[Len(s)]

\* TradeRecord; timestamp, profit_loss and price_impact are fields none of
\* the functions below reads.  `side` is 'buy' or 'sell'.
TradeRecord(wallet, token, side, amount, price) ==
    [wallet_address |-> wallet, token_address |-> token, side |-> side,
     amount |-> F(amount), price |-> F(price)]

\* get_session_volume: sum(trade.amount * trade.price for trade in trades),
\* added left to right starting from 0.
RECURSIVE GetSessionVolume(_)
GetSessionVolume(ts) ==
    IF ts = <<>>
    THEN F(0)
    ELSE FAdd(GetSessionVolume(Front(ts)), FMul(Last(ts).amount, Last(ts).price))

\* Mutant: every trade is counted as a buy.
GetTradeCount_AllBuys(ts) == [buy |-> Len(ts), sell |-> 0]

\* get_trade_count: counts[trade.side] += 1 over the trades.
RECURSIVE GetTradeCount(_)
GetTradeCount(ts) ==
    IF ts = <<>>
    THEN [buy |-> 0, sell |-> 0]
    ELSE LET counts == GetTradeCount(Front(ts))
         IN  [counts EXCEPT ![Last(ts).side] = @ + 1]

\* The entry get_positions creates for a (wallet, token) it has not seen.
EmptyPosition ==
    [amount |-> F(0), avg_price |-> F(0), total_cost |-> F(0),
     unrealized_pl |-> F(0)]

\* Mutant: a buy overwrites avg_price with the price of the trade.
ApplyBuy_LastPrice(pos, trade) ==
    [pos EXCEPT !.avg_price = trade.price,
                !.amount = FAdd(pos.amount, trade.amount),
                !.total_cost = FAdd(FMul(pos.amount, pos.avg_price),
                                    FMul(trade.amount, trade.price))]

\* get_positions, the buy branch.
ApplyBuy(pos, trade) ==
    LET total_cost == FAdd(FMul(pos.amount, pos.avg_price),
                           FMul(trade.amount, trade.price))
        new_amount == FAdd(pos.amount, trade.amount)
    IN  [pos EXCEPT !.avg_price = IF FPositive(new_amount)
                                  THEN FDiv(total_cost, new_amount)
                                  ELSE F(0),
                    !.amount = new_amount,
                    !.total_cost = total_cost]

\* Mutant: a sell resets the position only when the amount falls below 0.
ApplySell_StrictReset(pos, trade) ==
    LET amount == FSub(pos.amount, trade.amount)
    IN  IF amount[1] < 0
        THEN [pos EXCEPT !.amount = F(0), !.avg_price = F(0), !.total_cost = F(0)]
        ELSE [pos EXCEPT !.amount = amount]

\* Mutant: a sell never resets the position.
ApplySell_NoReset(pos, trade) ==
    [pos EXCEPT !.amount = FSub(pos.amount, trade.amount)]

\* get_positions, the sell branch.
ApplySell(pos, trade) ==
    LET amount == FSub(pos.amount, trade.amount)
    IN  IF ~FPositive(amount)
        THEN [pos EXCEPT !.amount = F(0), !.avg_price = F(0), !.total_cost = F(0)]
        ELSE [pos EXCEPT !.amount = amount]

\* One pass of the loop of get_positions on the entry of the trade's key.
ApplyTrade(pos, trade) ==
    LET p == IF trade.side = "buy" THEN ApplyBuy(pos, trade) ELSE ApplySell(pos, trade)
    IN  [p EXCEPT !.unrealized_pl = FMul(p.amount, FSub(trade.price, p.avg_price))]

PositionKey(trade) == <<trade.wallet_address, trade.token_address>>

\* get_positions: positions[wallet][token] after replaying the trades in
\* order, as a function of the (wallet, token) pairs that traded.
RECURSIVE GetPositions(_)
GetPositions(ts) ==
    IF ts = <<>>
    THEN [k \in {} |-> EmptyPosition]
    ELSE LET prev == GetPositions(Front(ts))
             key == PositionKey(Last(ts))
             old == IF key \in DOMAIN prev THEN prev[key] ELSE EmptyPosition
         IN  [k \in DOMAIN prev \cup {key} |->
                 IF k = key THEN ApplyTrade(old, Last(ts)) ELSE prev[k]]

\* The position get_positions reports for a key, EmptyPosition when the
\* key has not traded.
PositionOf(ts, key) ==
    IF key \in DOMAIN GetPositions(ts) THEN GetPositions(ts)[key] ELSE EmptyPosition

\* What a call that returns nothing leaves as its result.
NoResult ==
    [outcome |-> "None", total_volume |-> None, target_volume |-> None,
     progress |-> None, trade_counts |-> None]

\* What a call finds: the number of recorded trades and the session settings.
Before ==
    [trades |-> Len(trades), target_volume |-> target_volume,
     session_duration |-> session_duration]

\* A call, its arguments and what it found.
Call(op, args) == [op |-> op, args |-> args, before |-> Before]

\* timedelta(hours=duration_hours) if duration_hours else None
SessionDuration(duration_hours) ==
    IF duration_hours # None /\ duration_hours[1] # 0 THEN duration_hours ELSE None

\* Mutant: start_session keeps the recorded trades.
StartSession_KeepsTrades(target, duration_hours) ==
    /\ session_start' = Some(now)
    /\ target_volume' = target
    /\ session_duration' = SessionDuration(duration_hours)
    /\ vt_last' = Call("start_session", <<target, duration_hours>>)
    /\ vt_result' = NoResult
    /\ UNCHANGED <<trades, now>>

\* start_session(target_volume, duration_hours)
StartSession(target, duration_hours) ==
    /\ session_start' = Some(now)
    /\ target_volume' = target
    /\ session_duration' = SessionDuration(duration_hours)
    /\ trades' = <<>>
    /\ vt_last' = Call("start_session", <<target, duration_hours>>)
    /\ vt_result' = NoResult
    /\ UNCHANGED now

\* record_trade(trade)
RecordTrade(trade) ==
    /\ Len(trades) < MaxTrades
    /\ trades' = Append(trades, trade)
    /\ vt_last' = Call("record_trade", <<trade>>)
    /\ vt_result' = NoResult
    /\ UNCHANGED <<session_start, target_volume, session_duration, now>>

\* if not self.session_start: return {"error": "No active session"}
NoActiveSession == session_start = None

\* duration.total_seconds() / 3600 is 0.0 when datetime.now() still returns
\* the reading start_session took; len(self.trades) / 0.0 then raises.
TradesPerHourRaises == now = session_start[1]

\* The dict generate_report returns in an active session.  Of its entries
\* the model keeps total_volume, target_volume, progress and trade_counts.
Report ==
    LET total_volume == GetSessionVolume(trades)
    IN  [outcome |-> "report",
         total_volume |-> Some(total_volume),
         target_volume |-> target_volume,
         progress |-> IF target_volume # None /\ FTruthy(target_volume[1])
                      THEN Some(FProgress(total_volume, target_volume[1]))
                      ELSE None,
         trade_counts |-> Some(GetTradeCount(trades))]

\* Mutant: generate_report does not test for a session.
GenerateReportResult_NoSessionTest ==
    IF session_start = None \/ TradesPerHourRaises
    THEN [NoResult EXCEPT !.outcome = "ZeroDivisionError"]
    ELSE Report

\* What generate_report does in the current state.
GenerateReportResult ==
    IF NoActiveSession
    THEN [NoResult EXCEPT !.outcome = "No active session"]
    ELSE IF TradesPerHourRaises
         THEN [NoResult EXCEPT !.outcome = "ZeroDivisionError"]
         ELSE Report

\* generate_report()
GenerateReport ==
    /\ vt_last' = Call("generate_report", <<>>)
    /\ vt_result' = GenerateReportResult
    /\ UNCHANGED <<trades, session_start, target_volume, session_duration, now>>

\* The wall clock advances between two calls.
Tick ==
    /\ now < MaxClock
    /\ now' = now + 1
    /\ UNCHANGED <<trades, session_start, target_volume, session_duration,
                   vt_last, vt_result>>

\* VolumeTracker.__init__
InitTracker ==
    /\ trades = <<>>
    /\ session_start = None
    /\ target_volume = None
    /\ session_duration = None
    /\ now = 0
    /\ vt_last = Call("__init__", <<>>)
    /\ vt_result = NoResult

(***************************************************************************)
(* ArbitrageDetector (src/src/trading/arbitrage_detector.py).              *)
(*                                                                         *)
(* A registered DEX interface is known by what its get_token_price does:   *)
(* quote = Some(price) when it returns a price, None when it raises        *)
(* (RaydiumDEX has no get_token_price, so the call raises AttributeError). *)
(* Prices are Python numbers with integer values; a profit ratio           *)
(* (sell - buy) / buy is the float nearest the quotient and is carried as  *)
(* the pair <<sell - buy, buy>>.                                           *)
(***************************************************************************)
\* min_profit_threshold = Decimal('0.005') = 1 / ThresholdDenominator
ThresholdDenominator == 200

DexNames == {"A", "B", "C"}

DexPrices == {0, 100, 106, 200, 201}

Quotes == {None} \cup {Some(p) : p \in DexPrices}

NamesOf(ds) == {ds[i].name : i \in 1..Len(ds)}

IndexOf(ds, name) == CHOOSE i \in 1..Len(ds) : ds[i].name = name

\* self.dexes[name] = dex_interface: a new key is appended, an existing key
\* keeps its place.
WithDex(ds, name, quote) ==
    IF name \in NamesOf(ds)
    THEN [ds EXCEPT ![IndexOf(ds, name)] = [name |-> name, quote |-> quote]]
    ELSE Append(ds, [name |-> name, quote |-> quote])

HasPrice(entry) == entry.quote # None

\* The prices dict after the first loop of find_opportunities: the DEXes
\* whose get_token_price returned, in registration order.
GatherPrices(ds) ==
    LET priced == SelectSeq(ds, HasPrice)
    IN  [i \in 1..Len(priced) |-> [name |-> priced[i].name, price |-> priced[i].quote[1]]]

\* (sell_price - buy_price) / buy_price divides by zero when a DEX that is
\* paired with another one as the buy side quoted 0.
RatioRaises(prices) ==
    /\ Len(prices) >= 2
    /\ \E i \in 1..Len(prices) : prices[i].price = 0

ProfitRatio(buy_price, sell_price) == <<sell_price - buy_price, buy_price>>

\* profit_ratio > self.min_profit_threshold compares a float with
\* Decimal('0.005') exactly.  The float nearest 1/200 is
\* 0.005000000000000000104..., so a quotient of exactly 1/200 compares
\* greater; the quotients of the prices here are otherwise far from 1/200.
ExceedsThreshold(ratio) == ratio[1] * ThresholdDenominator >= ratio[2]

\* The dict appended for one profitable pair; estimated_profit
\* (profit_ratio * amount) is left out.
Opportunity(buy, sell) ==
    [buy_dex |-> buy.name, sell_dex |-> sell.name,
     buy_price |-> buy.price, sell_price |-> sell.price,
     profit_ratio |-> ProfitRatio(buy.price, sell.price)]

\* The opportunities list after the nested loops, for prices without a zero:
\* pair k of the n * n pairs is (buy (k-1) \div n + 1, sell (k-1) % n + 1).
RECURSIVE PairLoop(_, _)
PairLoop(prices, k) ==
    LET n == Len(prices)
        buy == prices[((k - 1) \div n) + 1]
        sell == prices[((k - 1) % n) + 1]
    IN  IF k > n * n
        THEN <<>>
        ELSE (IF buy.name # sell.name
                 /\ ExceedsThreshold(ProfitRatio(buy.price, sell.price))
              THEN <<Opportunity(buy, sell)>>
              ELSE <<>>) \o PairLoop(prices, k + 1)

\* x['profit_ratio'] of a is greater than that of b (both buy prices > 0).
RatioGreater(a, b) ==
    a.profit_ratio[1] * b.profit_ratio[2] > b.profit_ratio[1] * a.profit_ratio[2]

\* sorted(..., key=profit_ratio, reverse=True) is stable: an element goes
\* behind every element whose ratio is not smaller.
RECURSIVE InsertDesc(_, _)
InsertDesc(sorted, x) ==
    IF sorted = <<>>
    THEN <<x>>
    ELSE IF RatioGreater(x, Head(sorted))
         THEN <<x>> \o sorted
         ELSE <<Head(sorted)>> \o InsertDesc(Tail(sorted), x)

RECURSIVE SortedDesc(_)
SortedDesc(opps) ==
    IF opps = <<>> THEN <<>> ELSE InsertDesc(SortedDesc(Front(opps)), Last(opps))

\* find_opportunities(token_address, amount), the whole call.
FindOpportunitiesResult(ds) ==
    LET prices == GatherPrices(ds)
    IN  IF RatioRaises(prices)
        THEN [outcome |-> "ZeroDivisionError", opportunities |-> <<>>]
        ELSE [outcome |-> "list", opportunities |-> SortedDesc(PairLoop(prices, 1))]

\* add_dex(name, dex_interface)
AddDex(name, quote) ==
    /\ dexes' = WithDex(dexes, name, quote)
    /\ ad_result' = [outcome |-> "None", opportunities |-> <<>>]
    /\ UNCHANGED ad_optimal

FindOpportunities ==
    /\ ad_result' = FindOpportunitiesResult(dexes)
    /\ UNCHANGED <<dexes, ad_optimal>>

\* _estimate_gas_cost(): Decimal('0.001'), in millionths
GasCostMicro == 1000

\* _calculate_price_impact(amount): Decimal(amount) * Decimal('0.0001'), the
\* factor in millionths
ImpactMicroPerUnit == 100

\* opportunity.get('max_amount', 1000000)
DefaultMaxAmount == 1000000

\* potential_profit > total_cost, for a profit_ratio given in millionths
ProfitableAfterFees(profit_ratio, amount) ==
    profit_ratio * amount > GasCostMicro + ImpactMicroPerUnit * amount

\* Mutant: the comparison is `potential_profit >= total_cost`.
RECURSIVE OptimalLoop_AcceptsEqual(_, _, _)
OptimalLoop_AcceptsEqual(profit_ratio, amount, tried) ==
    IF amount > 0
    THEN IF profit_ratio * amount >= GasCostMicro + ImpactMicroPerUnit * amount
         THEN [amount |-> amount, tried |-> Append(tried, amount)]
         ELSE OptimalLoop_AcceptsEqual(profit_ratio, amount \div 2, Append(tried, amount))
    ELSE [amount |-> 0, tried |-> tried]

\* The while loop of calculate_optimal_amount from candidate `amount`;
\* tried lists the candidates the loop has tested.
RECURSIVE OptimalLoop(_, _, _)
OptimalLoop(profit_ratio, amount, tried) ==
    IF amount > 0
    THEN IF ProfitableAfterFees(profit_ratio, amount)
         THEN [amount |-> amount, tried |-> Append(tried, amount)]
         ELSE OptimalLoop(profit_ratio, amount \div 2, Append(tried, amount))
    ELSE [amount |-> 0, tried |-> tried]

NoOptimal == [called |-> FALSE, max_amount |-> <<>>, profit_ratio |-> 0,
              amount |-> 0, tried |-> <<>>]

\* calculate_optimal_amount(opportunity); max_amount is <<>> for a dict
\* without that key and <<n>> for one that holds n.
CalculateOptimalAmount(max_amount, profit_ratio) ==
    LET start == IF max_amount = <<>> THEN DefaultMaxAmount ELSE max_amount[1]
        r == OptimalLoop(profit_ratio, start, <<>>)
    IN  /\ ad_optimal' = [called |-> TRUE, max_amount |-> max_amount,
                          profit_ratio |-> profit_ratio,
                          amount |-> r.amount, tried |-> r.tried]
        /\ UNCHANGED <<dexes, ad_result>>

\* ArbitrageDetector.__init__
InitDetector ==
    /\ dexes = <<>>
    /\ ad_result = [outcome |-> "None", opportunities |-> <<>>]
    /\ ad_optimal = NoOptimal

(***************************************************************************)
(* TradeExecutor.start_trading_session                                     *)
(***************************************************************************)
\* start_trading_session up to its while loop
StartTradingSession ==
    /\ ss_pc \in {"idle", "done"}
    /\ RoundIdle
    /\ ss_pc' = "loop"
    /\ ss_result' = "running"
    /\ UNCHANGED <<wmVars, ptVars, rdVars>>

\* `while datetime.now() < session_end` holds: the next round is awaited.
\* `drawn` is the outcome of random.random() < 0.2.
SessionRound(drawn) ==
    /\ ss_pc = "loop"
    /\ IF drawn /\ hf_enabled THEN StartHighFrequencyRound ELSE StartTradingRound
    /\ ss_pc' = "round"
    /\ UNCHANGED ss_result

\* Mutant: the except clause of the session logs the error and returns.
SessionAfterRound_Swallows ==
    /\ ss_pc = "round"
    /\ rd_pc = "done"
    /\ ss_pc' = IF rd_result = "raised" THEN "done" ELSE "loop"
    /\ ss_result' = IF rd_result = "raised" THEN "completed" ELSE ss_result
    /\ UNCHANGED <<wmVars, ptVars, rdVars>>

\* The awaited round has ended: its exception leaves the session through the
\* except clause, which logs and re-raises; otherwise the loop goes on.
SessionAfterRound ==
    /\ ss_pc = "round"
    /\ rd_pc = "done"
    /\ ss_pc' = IF rd_result = "raised" THEN "done" ELSE "loop"
    /\ ss_result' = IF rd_result = "raised" THEN "raised" ELSE ss_result
    /\ UNCHANGED <<wmVars, ptVars, rdVars>>

\* The loop condition is false: "Trading session completed".
SessionEnd ==
    /\ ss_pc = "loop"
    /\ ss_pc' = "done"
    /\ ss_result' = "completed"
    /\ UNCHANGED <<wmVars, ptVars, rdVars>>

(***************************************************************************)
(* TradeExecutor.execute_trade (src/src/trading/trade_executor.py).        *)
(*                                                                         *)
(* A call is one step.  What execute_protected_trade, dex.get_token_price  *)
(* and wallet_manager.get_active_wallet answer is an input of the call     *)
(* ("ok" or "raise", the price, the wallet); the opportunities come from   *)
(* the executor's own ArbitrageDetector.                                   *)
(***************************************************************************)
\* config.get('min_arbitrage_profit', 0.005), as 1 / MinProfitDenominator
MinProfitDenominator == 200

TradeTokens == {"t1"}

ActiveWallets == {"w1", "w2"}

\* best_opportunity['profit_ratio'] > 0.005: the float nearest 1/200 is not
\* greater than itself.
TakesArbitrage(ratio) == ratio[1] * MinProfitDenominator > ratio[2]

\* _execute_arbitrage(opportunity): the subscripts opportunity['token_address']
\* and opportunity['optimal_amount'] raise KeyError for a dict without these
\* keys; with them, create_protected_bundle is handed the list
\* [buy_tx, sell_tx] and raises AttributeError on main_tx.get.
ExecuteArbitrageResult(opportunity) ==
    IF {"token_address", "optimal_amount"} \subseteq DOMAIN opportunity
    THEN [outcome |-> "raised", error |-> "AttributeError", signature |-> "",
          type |-> "", entry_price |-> None, position_id |-> None]
    ELSE [outcome |-> "raised", error |-> "KeyError", signature |-> "",
          type |-> "", entry_price |-> None, position_id |-> None]

TradeRaised(error) ==
    [outcome |-> "raised", error |-> error, signature |-> "",
     type |-> "", entry_price |-> None, position_id |-> None]

\* the tuple execute_trade returns after a protected trade; `found` is what
\* the name `opportunities` is bound to
TradeReturned(found, is_buy, price, wallet) ==
    [outcome |-> "returned", error |-> "", signature |-> "sig",
     type |-> IF found # <<>> THEN "arbitrage" ELSE "normal",
     entry_price |-> IF is_buy THEN Some(price) ELSE None,
     position_id |-> IF is_buy THEN Some(wallet) ELSE None]

NoTrade ==
    [op |-> "none", token |-> "", is_buy |-> FALSE, check_arbitrage |-> FALSE,
     wallet |-> "", protected |-> "none", priced |-> "none", price |-> 0,
     detector |-> "none", opportunities |-> <<>>, before |-> <<>>]

\* execute_trade(token_address, amount, is_buy, slippage, check_arbitrage)
\* with amount = PositionAmount.
ExecuteTrade(token, is_buy, check_arbitrage, wallet, protected, priced, price, trailing) ==
    LET found == FindOpportunitiesResult(dexes)
        opps == IF check_arbitrage /\ found.outcome = "list"
                THEN found.opportunities ELSE <<>>
        call == [op |-> "execute_trade", token |-> token, is_buy |-> is_buy,
                 check_arbitrage |-> check_arbitrage, wallet |-> wallet,
                 protected |-> protected, priced |-> priced, price |-> price,
                 detector |-> IF check_arbitrage THEN found.outcome ELSE "skipped",
                 opportunities |-> opps, before |-> positions]
    IN  /\ rm_pc # "tick"
        /\ et_last' = call
        /\ IF check_arbitrage /\ found.outcome # "list"
           THEN \* find_opportunities raised
                /\ et_result' = TradeRaised(found.outcome)
                /\ UNCHANGED rmVars
           ELSE IF opps # <<>> /\ TakesArbitrage(opps[1].profit_ratio)
           THEN /\ et_result' = ExecuteArbitrageResult(opps[1])
                /\ UNCHANGED rmVars
           ELSE IF protected = "raise"
           THEN /\ et_result' = TradeRaised("Exception")
                /\ UNCHANGED rmVars
           ELSE IF is_buy /\ priced = "raise"
           THEN /\ et_result' = TradeRaised("Exception")
                /\ UNCHANGED rmVars
           ELSE /\ IF is_buy
                   THEN AddPosition(wallet \o ":" \o token, price, 0, trailing, 0)
                   ELSE UNCHANGED rmVars
                /\ et_result' = IF check_arbitrage
                                THEN TradeReturned(opps, is_buy, price, wallet)
                                ELSE \* the name `opportunities` is not bound
                                     TradeRaised("UnboundLocalError")

\* No execute_trade call has been made.
InitNoTrade ==
    /\ et_last = NoTrade
    /\ et_result = [outcome |-> "none", error |-> "", signature |-> "",
                    type |-> "", entry_price |-> None, position_id |-> None]

(***************************************************************************)
(* RiskManager with other tasks: calls that run while the monitoring       *)
(* coroutine is suspended in an await of _check_positions.                 *)
(***************************************************************************)
\* The tick is suspended in the body of its for loop: the iterator has
\* produced a position (the first await of a tick comes after the first
\* step of the iterator) and the dict still has the size the iterator
\* expects, so this is the first size-changing call of the suspension.
TickSuspended ==
    /\ rm_pc = "tick"
    /\ rm_next > 1
    /\ Len(positions) = rm_used

\* add_position called by another task (execute_trade's
\* add_monitored_position) while the tick is suspended
AddPositionDuringTick(key, entry_price, threshold, trailing_stop, distance) ==
    /\ TickSuspended
    /\ positions' = WithPosition(positions,
           NewPosition(key, entry_price, PositionAmount, threshold, trailing_stop, distance))
    /\ UNCHANGED <<monitoring, rm_pc, rm_next, rm_used, rm_last, market_price, price_fell, rm_second>>

\* remove_position called by another task while the tick is suspended
RemovePositionDuringTick(key) ==
    /\ TickSuspended
    /\ positions' = WithoutKey(positions, key)
    /\ UNCHANGED <<monitoring, rm_pc, rm_next, rm_used, rm_last, market_price, price_fell, rm_second>>

(***************************************************************************)
(* A second start_monitoring call.  start_monitoring tests nothing before  *)
(* it sets the flag and enters its loop, so a call made while an earlier   *)
(* call has not returned runs a second coroutine over the same dict and    *)
(* the same flag.                                                          *)
(***************************************************************************)
\* start_monitoring, called while the first coroutine has not returned
StartMonitoringAgain ==
    /\ rm_pc # "stopped"
    /\ rm_second.pc = "stopped"
    /\ monitoring' = TRUE
    /\ rm_second' = [pc |-> "tick", next |-> 1, used |-> Len(positions)]
    /\ UNCHANGED <<positions, rm_pc, rm_next, rm_used, rm_last, market_price, price_fell>>

\* One iteration of the for loop of the second coroutine's tick.
SecondCheckPosition(priceOutcome, priceType, impactOutcome, impact, sellOutcome) ==
    /\ rm_second.pc = "tick"
    /\ Len(positions) = rm_second.used
    /\ rm_second.next <= Len(positions)
    /\ LET pos == positions[rm_second.next]
           price == market_price
           upd == TrailingUpdate(pos, price, priceType, impact)
           kept == [positions EXCEPT ![rm_second.next] = upd.pos]
           last(outcome, amount, sold) ==
               [key |-> pos.key, price |-> price, outcome |-> outcome,
                sell_amount |-> amount, sold |-> sold]
       IN  IF priceOutcome = "raise" \/ impactOutcome = "raise"
           THEN /\ positions' = positions
                /\ rm_last' = last("query_error", 0, "none")
           ELSE IF upd.raised
           THEN /\ positions' = kept
                /\ rm_last' = last("type_error", 0, "none")
           ELSE IF StopTriggered(upd.pos, price)
           THEN /\ positions' = AfterStopLoss(kept, upd.pos, sellOutcome)
                /\ rm_last' = last("stop_loss", upd.pos.amount, sellOutcome)
           ELSE /\ positions' = kept
                /\ rm_last' = last("held", 0, "none")
    /\ rm_second' = [rm_second EXCEPT !.next = rm_second.next + 1]
    /\ UNCHANGED <<monitoring, rm_pc, rm_next, rm_used, market_price, price_fell>>

\* The second coroutine's tick returns, or its iterator raises RuntimeError.
SecondTickEnd ==
    /\ rm_second.pc = "tick"
    /\ rm_second' = [rm_second EXCEPT
           !.pc = IF Len(positions) # rm_second.used THEN "backoff"
                  ELSE IF rm_second.next > Len(positions) THEN "sleep" ELSE "tick"]
    /\ rm_second'.pc # "tick"
    /\ UNCHANGED <<positions, monitoring, rm_pc, rm_next, rm_used, rm_last,
                   market_price, price_fell>>

\* The second coroutine's sleep is over: `while self.monitoring`.
SecondWake ==
    /\ rm_second.pc \in {"sleep", "backoff"}
    /\ rm_second' = IF monitoring
                    THEN [pc |-> "tick", next |-> 1, used |-> Len(positions)]
                    ELSE IdleLoop
    /\ UNCHANGED <<positions, monitoring, rm_pc, rm_next, rm_used, rm_last,
                   market_price, price_fell>>

(***************************************************************************)
(* VolumeTracker.get_wallet_performance                                    *)
(***************************************************************************)
\* The entry get_wallet_performance creates for a wallet it has not seen.
NewWalletStats(wallet) ==
    [wallet_address |-> wallet, volume |-> F(0), trade_count |-> 0,
     buys |-> 0, sells |-> 0]

\* get_wallet_performance: the wallet_stats dict after the loop over the
\* trades, as its entries in insertion order.
RECURSIVE GetWalletPerformance(_)
GetWalletPerformance(ts) ==
    IF ts = <<>>
    THEN <<>>
    ELSE LET prev == GetWalletPerformance(Front(ts))
             trade == Last(ts)
             stats == IF \E i \in 1..Len(prev) :
                             prev[i].wallet_address = trade.wallet_address
                      THEN prev
                      ELSE Append(prev, NewWalletStats(trade.wallet_address))
         IN  [i \in 1..Len(stats) |->
                 IF stats[i].wallet_address # trade.wallet_address
                 THEN stats[i]
                 ELSE [stats[i] EXCEPT
                          !.volume = FAdd(@, FMul(trade.amount, trade.price)),
                          !.trade_count = @ + 1,
                          !.buys = IF trade.side = "buy" THEN @ + 1 ELSE @,
                          !.sells = IF trade.side = "buy" THEN @ ELSE @ + 1]]

(***************************************************************************)
(* Specifications of the wallet manager.                                   *)
(***************************************************************************)
InitIdleCall ==
    /\ wm_op = "none"
    /\ wm_pc = "idle"
    /\ wm_keys = <<>>
    /\ wm_idx = 1
    /\ wm_lamports = 0
    /\ wm_visits = <<>>
    /\ wm_sends = <<>>
    /\ wm_result = "none"

\* WalletManager.__init__: an empty pool.
InitEmptyPool ==
    /\ max_wallets = MaxWallets
    /\ current_round = 0
    /\ wallets = <<>>
    /\ trading_wallets = {}
    /\ next_key = 1

\* The pool after one create_wallet_group(GroupSize).
InitOneGroup ==
    /\ max_wallets = MaxWallets
    /\ current_round = 1
    /\ wallets = <<[i \in 1..GroupSize |-> i]>>
    /\ trading_wallets = 1..GroupSize
    /\ next_key = GroupSize + 1

\* SpecPool: wallet-group creation on a fresh manager.
InitPool ==
    /\ main_wallet_key = "key"
    /\ max_retries = MaxRetries
    /\ InitEmptyPool
    /\ InitIdleCall
    /\ InitBundler
    /\ InitRisk
    /\ InitMev
    /\ InitTracker
    /\ InitDetector
    /\ InitPattern
    /\ InitExecutor
    /\ InitNoTrade

NextPool == (\E size \in Sizes : CreateWalletGroup(size)) /\ UNCHANGED <<bdVars, rmVars, ptVars, rdVars, mvVars, vtVars, adVars, ssVars, etVars>>

SpecPool == InitPool /\ [][NextPool]_vars

\* The wallet_keys lists the transfer runs are called with: the group, the
\* group reversed, the empty list, the group with one foreign address, and
\* the group with one (keypair, address) tuple in place of the address.
KeyLists ==
    LET group == wallets[current_round]
    IN  {<<>>, group, Reverse(group)}
          \cup {ReplaceAt(group, i, OtherKey) : i \in 1..Len(group)}
          \cup {ReplaceAt(group, i, Pair(group[i])) : i \in 1..Len(group)}

\* SpecWallet: funding and draining one wallet group.
InitWallet ==
    /\ main_wallet_key \in {"", "key"}
    /\ max_retries \in 0..MaxRetries
    /\ InitOneGroup
    /\ InitIdleCall
    /\ InitBundler
    /\ InitRisk
    /\ InitMev
    /\ InitTracker
    /\ InitDetector
    /\ InitPattern
    /\ InitExecutor
    /\ InitNoTrade

NextWallet ==
    \/ \E keys \in KeyLists, a \in HalfLamportAmounts : StartDistribute(keys, a)
          /\ UNCHANGED <<bdVars, rmVars, ptVars, rdVars, mvVars, vtVars, adVars, ssVars, etVars>>
    \/ \E b \in BOOLEAN, f \in 0..max_retries : DistributeStep(b, f)
          /\ UNCHANGED <<bdVars, rmVars, ptVars, rdVars, mvVars, vtVars, adVars, ssVars, etVars>>
    \/ \E keys \in KeyLists : StartRecall(keys) /\ UNCHANGED <<bdVars, rmVars, ptVars, rdVars, mvVars, vtVars, adVars, ssVars, etVars>>
    \/ \E q \in {"raise", "None", "value"}, v \in Balances, b \in BOOLEAN,
          f \in 0..max_retries : RecallStep(q, v, b, f)
          /\ UNCHANGED <<bdVars, rmVars, ptVars, rdVars, mvVars, vtVars, adVars, ssVars, etVars>>

SpecWallet == InitWallet /\ [][NextWallet]_vars

(***************************************************************************)
(* Claims about the wallet manager.                                        *)
(***************************************************************************)
\* C1 (as claimed): create_wallet_group(size) fails with a capacity error and
\* creates no wallet whenever the wallets already in the pool plus size
\* would exceed max_wallets.
C1_CapacityCountsOutstanding ==
    [][\A size \in Sizes :
          (CreateWalletGroup(size) /\ Cardinality(trading_wallets) + size > max_wallets)
             => (wm_result' = "ValueError" /\ trading_wallets' = trading_wallets)]_vars

\* C2 (as claimed): a recall_sol that got past its configuration check has,
\* when it returns, handled every wallet of its list, in list order, whatever
\* failed on the way.
C2_RecallContinuesPastFailures ==
    (wm_op = "recall" /\ wm_pc = "idle" /\ main_wallet_key # "")
       => /\ Len(wm_visits) = Len(wm_keys)
          /\ \A i \in 1..Len(wm_visits) : wm_visits[i].idx = i

\* The wallets (list positions) whose transfer exhausted its retries.
ExhaustedAt == {wm_visits[i].idx : i \in {j \in 1..Len(wm_visits) :
                                            wm_visits[j].outcome = "send_failed"}}

OkSendsTo(i) == {j \in 1..Len(wm_sends) : wm_sends[j].idx = i /\ wm_sends[j].ok}

\* C3: distribute_sol sends in list order, one wallet at a time; once a
\* wallet's transfer has exhausted its retries the call has returned False
\* and no later wallet was sent anything; a call that returns True made
\* exactly one successful transfer of lamports_per_wallet to every wallet
\* (rejected attempts before it moved nothing).
C3_DistributeFailFastInOrder ==
    wm_op = "distribute" =>
       /\ \A j \in 1..Len(wm_sends) :
             /\ wm_sends[j].key = wm_keys[wm_sends[j].idx]
             /\ wm_sends[j].lamports = wm_lamports
             /\ j > 1 => /\ wm_sends[j - 1].idx <= wm_sends[j].idx
                         /\ wm_sends[j - 1].idx < wm_sends[j].idx => wm_sends[j - 1].ok
                         /\ wm_sends[j - 1].idx = wm_sends[j].idx => ~wm_sends[j - 1].ok
       /\ \A i \in ExhaustedAt :
             /\ wm_pc = "idle" /\ wm_result = "False"
             /\ \A j \in 1..Len(wm_sends) : wm_sends[j].idx <= i
       /\ wm_result = "True" =>
             /\ wm_pc = "idle"
             /\ \A i \in 1..Len(wm_keys) : Cardinality(OkSendsTo(i)) = 1

\* C3 witness: a two-wallet distribution whose first wallet used up all its
\* (at least one) attempts, so the call returned False before the second.
C3_Witness ==
    /\ wm_op = "distribute" /\ wm_pc = "idle" /\ wm_result = "False"
    /\ Len(wm_keys) = 2 /\ max_retries > 0
    /\ Len(wm_sends) = max_retries
    /\ 1 \in ExhaustedAt

\* the balance recall_sol read for the wallet at list position i
BalanceSeen(i) == wm_visits[CHOOSE j \in 1..Len(wm_visits) : wm_visits[j].idx = i].bal

InitBundle ==
    /\ main_wallet_key = "key"
    /\ max_retries = MaxRetries
    /\ InitEmptyPool
    /\ InitIdleCall
    /\ InitBundler
    /\ InitRisk
    /\ InitMev
    /\ InitTracker
    /\ InitDetector
    /\ InitPattern
    /\ InitExecutor
    /\ InitNoTrade

NextBundle ==
    \/ \E n \in 0..MaxTxs : StartCreateBundle(n)
          /\ UNCHANGED <<wmVars, rmVars, ptVars, rdVars, mvVars, vtVars, adVars, ssVars, etVars>>
    \/ \E o \in BuildOutcomes : CreateBundleStep(o)
          /\ UNCHANGED <<wmVars, rmVars, ptVars, rdVars, mvVars, vtVars, adVars, ssVars, etVars>>

SpecBundle == InitBundle /\ [][NextBundle]_vars

RECURSIVE ConcatTxs(_, _)
ConcatTxs(builds, k) ==
    IF k = 0 THEN <<>> ELSE ConcatTxs(builds, k - 1) \o builds[k].txs

BundleReturned == bd_pc = "idle" /\ bd_result \notin {"none", "running"}

\* C9: the chunks handed to _build_bundle are consecutive pieces of the
\* input, taken in input order; the loop only goes on after a failed chunk;
\* a returned id is the id of the last chunk tried, which succeeded; None is
\* returned only when every chunk of the input was tried and failed.
C9_FirstSuccessfulChunkWins ==
    LET k == Len(bd_builds)
        done == Len(ConcatTxs(bd_builds, k))
    IN  /\ k > 0 => ConcatTxs(bd_builds, k) = SubSeq(bd_txs, 1, done)
        /\ \A j \in 1..k : bd_builds[j].chunk = j /\ Len(bd_builds[j].txs) > 0
        /\ \A j \in 1..(k - 1) : bd_builds[j].result = "None"
        /\ (bd_pc = "chunks") => \A j \in 1..k : bd_builds[j].result = "None"
        /\ (BundleReturned /\ bd_result # "None")
              => /\ k > 0
                 /\ bd_builds[k].submitted
                 /\ bd_result = bd_builds[k].result
        /\ (BundleReturned /\ bd_result = "None")
              => /\ done = Len(bd_txs)
                 /\ \A j \in 1..k : bd_builds[j].result = "None"

\* C9 witness: of three chunks the first failed, the second succeeded and
\* its id was returned, the third was never built.
C9_Witness ==
    /\ BundleReturned
    /\ Len(bd_txs) = 7
    /\ Len(bd_builds) = 2
    /\ bd_builds[1].submitted /\ bd_builds[1].result = "None"
    /\ bd_result = BundleId(2)

CallerTxsOf(bundle) == SelectSeq(bundle, LAMBDA t : t.kind = "caller")
TipTxsOf(bundle) == SelectSeq(bundle, LAMBDA t : t.kind = "tip")

\* C10: every bundle handed to send_bundle holds at most 3 caller
\* transactions and exactly one tip transaction, so at most
\* bundle_size_limit = 4 in all, and its caller transactions are a contiguous
\* slice of the input.
C10_BundleWithinLimit ==
    \A j \in 1..Len(bd_builds) :
       bd_builds[j].submitted =>
          LET b == bd_builds[j].bundle
              c == CallerTxsOf(b)
          IN  /\ Len(c) <= 3
              /\ Len(TipTxsOf(b)) = 1
              /\ Len(b) <= bundle_size_limit
              /\ \E a \in 1..Len(bd_txs) : c = SubSeq(bd_txs, a, a + Len(c) - 1)

\* C10 witness: a submitted bundle of exactly four transactions, cut from
\* the middle of an input of more than six.
C10_Witness ==
    /\ Len(bd_txs) > 6
    /\ \E j \in 1..Len(bd_builds) :
          /\ bd_builds[j].submitted
          /\ Len(bd_builds[j].bundle) = 4
          /\ bd_builds[j].txs = SubSeq(bd_txs, 4, 6)

(***************************************************************************)
(* Specification and claims of the risk manager.                           *)
(***************************************************************************)
InitRiskManager ==
    /\ main_wallet_key = "key"
    /\ max_retries = MaxRetries
    /\ InitEmptyPool
    /\ InitIdleCall
    /\ InitBundler
    /\ InitRisk
    /\ InitMev
    /\ InitTracker
    /\ InitDetector
    /\ InitPattern
    /\ InitExecutor
    /\ InitNoTrade

NextRisk ==
    \/ \E k \in PositionKeys, e \in EntryPrices, t \in ThresholdOptions, tr \in BOOLEAN,
          d \in DistanceOptions : AddPosition(k, e, t, tr, d)
          /\ UNCHANGED <<wmVars, bdVars, ptVars, rdVars, mvVars, vtVars, adVars, ssVars, etVars>>
    \/ \E k \in PositionKeys : RemovePosition(k)
          /\ UNCHANGED <<wmVars, bdVars, ptVars, rdVars, mvVars, vtVars, adVars, ssVars, etVars>>
    \/ \E p \in Prices : PriceMove(p) /\ UNCHANGED <<wmVars, bdVars, ptVars, rdVars, mvVars, vtVars, adVars, ssVars, etVars>>
    \/ StartMonitoring /\ UNCHANGED <<wmVars, bdVars, ptVars, rdVars, mvVars, vtVars, adVars, ssVars, etVars>>
    \/ StopMonitoring /\ UNCHANGED <<wmVars, bdVars, ptVars, rdVars, mvVars, vtVars, adVars, ssVars, etVars>>
    \/ \E po \in {"ok", "raise"}, ty \in {"Decimal", "float"}, io \in {"ok", "raise"},
          i \in Impacts, so \in {"ok", "raise"} : CheckPosition(po, ty, io, i, so)
          /\ UNCHANGED <<wmVars, bdVars, ptVars, rdVars, mvVars, vtVars, adVars, ssVars, etVars>>
    \/ TickEnd /\ UNCHANGED <<wmVars, bdVars, ptVars, rdVars, mvVars, vtVars, adVars, ssVars, etVars>>
    \/ TickAbort /\ UNCHANGED <<wmVars, bdVars, ptVars, rdVars, mvVars, vtVars, adVars, ssVars, etVars>>
    \/ Wake /\ UNCHANGED <<wmVars, bdVars, ptVars, rdVars, mvVars, vtVars, adVars, ssVars, etVars>>

SpecRisk == InitRiskManager /\ [][NextRisk]_vars

\* C5 (as claimed): when a position check finds current price <=
\* stop_loss_price, a sell of the position's full amount is issued and the
\* position is gone from the positions map after that check, whether or not
\* the sell succeeded.
C5_StopLossClosesPosition ==
    [][\A po \in {"ok"}, ty \in {"Decimal", "float"}, io \in {"ok"}, i \in Impacts,
         so \in {"ok", "raise"} :
          (CheckPosition(po, ty, io, i, so) /\ rm_last'.outcome = "stop_loss")
             => /\ rm_last'.sell_amount = positions[rm_next].amount
                /\ ~\E j \in 1..Len(positions') : positions'[j].key = rm_last'.key]_vars

\* C6 (as claimed): while the quoted price has never fallen, a position
\* check never lowers the stop_loss_price of a trailing-stop position.
C6_TrailingStopNeverDecreases ==
    [][\A po \in {"ok", "raise"}, ty \in {"Decimal", "float"}, io \in {"ok", "raise"},
         i \in Impacts, so \in {"ok", "raise"} :
          (CheckPosition(po, ty, io, i, so) /\ ~price_fell
              /\ positions[rm_next].trailing_stop
              /\ \E j \in 1..Len(positions') : positions'[j].key = positions[rm_next].key)
             => \A j \in 1..Len(positions') :
                   positions'[j].key = positions[rm_next].key
                      => positions'[j].stop100 >= positions[rm_next].stop100]_vars

(***************************************************************************)
(* Specification and claims of the trading patterns.                       *)
(***************************************************************************)
\* The manager holds one group of PatternWallets wallets.
InitPatternRun ==
    /\ main_wallet_key = "key"
    /\ max_retries = MaxRetries
    /\ max_wallets = PatternWallets
    /\ current_round = 1
    /\ wallets = <<[i \in 1..PatternWallets |-> i]>>
    /\ trading_wallets = 1..PatternWallets
    /\ next_key = PatternWallets + 1
    /\ InitIdleCall
    /\ InitBundler
    /\ InitRisk
    /\ InitMev
    /\ InitTracker
    /\ InitDetector
    /\ InitPattern
    /\ InitExecutor
    /\ InitNoTrade

\* The wallet_group lists the patterns are called with: the prefixes of the
\* group, and the group with its last address replaced by a foreign one.
PatternGroups ==
    LET group == wallets[current_round]
    IN  {SubSeq(group, 1, n) : n \in 0..Len(group)}
          \cup {ReplaceAt(group, Len(group), OtherKey)}

NextPattern ==
    \/ \E g \in PatternGroups : StartPump(g) /\ UNCHANGED <<wmVars, bdVars, rmVars, rdVars, mvVars, vtVars, adVars, ssVars, etVars>>
    \/ \E g \in PatternGroups : StartMilkshake(g)
          /\ UNCHANGED <<wmVars, bdVars, rmVars, rdVars, mvVars, vtVars, adVars, ssVars, etVars>>
    \/ \E g \in PatternGroups, d \in {0, 1} : StartHighFrequency(g, d)
          /\ UNCHANGED <<wmVars, bdVars, rmVars, rdVars, mvVars, vtVars, adVars, ssVars, etVars>>
    \/ \E ok \in BOOLEAN, sellers \in SUBSET (1..PatternWallets) : PumpPrice(ok, sellers)
          /\ UNCHANGED <<wmVars, bdVars, rmVars, rdVars, mvVars, vtVars, adVars, ssVars, etVars>>
    \/ \E ok \in BOOLEAN, sh \in Shuffles(pt_group) : MilkshakePrice(ok, sh)
          /\ UNCHANGED <<wmVars, bdVars, rmVars, rdVars, mvVars, vtVars, adVars, ssVars, etVars>>
    \/ \E ok \in BOOLEAN : PlanStep(ok) /\ UNCHANGED <<wmVars, bdVars, rmVars, rdVars, mvVars, vtVars, adVars, ssVars, etVars>>
    \/ PatternReturn /\ UNCHANGED <<wmVars, bdVars, rmVars, rdVars, mvVars, vtVars, adVars, ssVars, etVars>>
    \/ \E elapsed \in {0, 1} : HfLoopTest(elapsed)
          /\ UNCHANGED <<wmVars, bdVars, rmVars, rdVars, mvVars, vtVars, adVars, ssVars, etVars>>
    \/ \E i \in 1..PatternWallets, ok \in BOOLEAN : HfSwapDone(i, ok)
          /\ UNCHANGED <<wmVars, bdVars, rmVars, rdVars, mvVars, vtVars, adVars, ssVars, etVars>>
    \/ HfWaveDone /\ UNCHANGED <<wmVars, bdVars, rmVars, rdVars, mvVars, vtVars, adVars, ssVars, etVars>>

SpecPattern == InitPatternRun /\ [][NextPattern]_vars

FailedSwaps == {j \in 1..Len(pt_swaps) : ~pt_swaps[j].ok}

\* C7 (as claimed): a swap that fails does not abort the pattern -- a pattern
\* call in which some execute_swap failed never ends by raising.
C7_PatternsTolerateSwapFailures ==
    FailedSwaps # {} => pt_result # "raised"

(***************************************************************************)
(* Specification and claims of the executor's rounds.                      *)
(***************************************************************************)
InitRound ==
    /\ main_wallet_key \in {"", "key"}
    /\ max_retries = 1
    /\ InitEmptyPool
    /\ InitIdleCall
    /\ InitBundler
    /\ InitRisk
    /\ InitMev
    /\ InitTracker
    /\ InitDetector
    /\ InitPattern
    /\ wallet_group_size \in 0..MaxWallets
    /\ hf_enabled \in BOOLEAN
    /\ InitNoRound
    /\ InitNoTradingSession
    /\ InitNoTrade

NextRound ==
    \/ StartTradingRound /\ UNCHANGED <<bdVars, rmVars, mvVars, vtVars, adVars, ssVars, etVars>>
    \/ StartHighFrequencyRound /\ UNCHANGED <<bdVars, rmVars, mvVars, vtVars, adVars, ssVars, etVars>>
    \/ \E h \in RoundAmounts : RoundDistribute(h) /\ UNCHANGED <<bdVars, rmVars, mvVars, vtVars, adVars, ssVars, etVars>>
    \/ \E b \in BOOLEAN, f \in 0..max_retries : RoundDistributeStep(b, f)
          /\ UNCHANGED <<bdVars, rmVars, mvVars, vtVars, adVars, ssVars, etVars>>
    \/ RoundFunded /\ UNCHANGED <<bdVars, rmVars, mvVars, vtVars, adVars, ssVars, etVars>>
    \/ \E c \in {"pump", "milkshake"} : RoundNextPattern(c) /\ UNCHANGED <<bdVars, rmVars, mvVars, vtVars, adVars, ssVars, etVars>>
    \/ RoundNextBatch /\ UNCHANGED <<bdVars, rmVars, mvVars, vtVars, adVars, ssVars, etVars>>
    \/ \E i \in 1..MaxPool, c \in {"pump", "milkshake"} : RoundTaskStart(i, c)
          /\ UNCHANGED <<bdVars, rmVars, mvVars, vtVars, adVars, ssVars, etVars>>
    \/ \E ok \in BOOLEAN, sellers \in SUBSET (1..MaxPool) :
          RoundPatternStep(PumpPrice(ok, sellers))
          /\ UNCHANGED <<bdVars, rmVars, mvVars, vtVars, adVars, ssVars, etVars>>
    \/ \E ok \in BOOLEAN, sh \in Shuffles(pt_group) : RoundPatternStep(MilkshakePrice(ok, sh))
          /\ UNCHANGED <<bdVars, rmVars, mvVars, vtVars, adVars, ssVars, etVars>>
    \/ \E ok \in BOOLEAN : RoundPatternStep(PlanStep(ok)) /\ UNCHANGED <<bdVars, rmVars, mvVars, vtVars, adVars, ssVars, etVars>>
    \/ RoundPatternStep(PatternReturn) /\ UNCHANGED <<bdVars, rmVars, mvVars, vtVars, adVars, ssVars, etVars>>
    \/ RoundAfterPattern /\ UNCHANGED <<bdVars, rmVars, mvVars, vtVars, adVars, ssVars, etVars>>
    \/ RoundBatchDone /\ UNCHANGED <<bdVars, rmVars, mvVars, vtVars, adVars, ssVars, etVars>>
    \/ RoundRecall /\ UNCHANGED <<bdVars, rmVars, mvVars, vtVars, adVars, ssVars, etVars>>
    \/ \E q \in {"raise", "value"}, v \in {0, 2 * FeeReserveLamports}, b \in BOOLEAN,
          f \in 0..max_retries : RoundRecallStep(q, v, b, f)
          /\ UNCHANGED <<bdVars, rmVars, mvVars, vtVars, adVars, ssVars, etVars>>
    \/ RoundRecalled /\ UNCHANGED <<bdVars, rmVars, mvVars, vtVars, adVars, ssVars, etVars>>

SpecRound == InitRound /\ [][NextRound]_vars

\* C4 (as claimed): a round whose distribute_sol returned False executes no
\* trading pattern for its wallet group.
C4_NoPatternAfterFailedFunding ==
    rd_funded = "False" => rd_patterns = <<>>

(***************************************************************************)
(* Specification and claims of the MEV protection.                         *)
(***************************************************************************)
InitProtection ==
    /\ main_wallet_key = "key"
    /\ max_retries = MaxRetries
    /\ InitEmptyPool
    /\ InitIdleCall
    /\ InitBundler
    /\ InitRisk
    /\ InitMev
    /\ InitTracker
    /\ InitDetector
    /\ InitPattern
    /\ InitExecutor
    /\ InitNoTrade

NextProtection ==
    \E main_tx \in MainTxs, wallet_group \in MevGroups :
        CreateProtectedBundle(main_tx, wallet_group)
          /\ UNCHANGED <<wmVars, bdVars, rmVars, ptVars, rdVars, vtVars, adVars, ssVars, etVars>>

SpecProtection == InitProtection /\ [][NextProtection]_vars

\* Entries of the returned bundle with the given role.
BundleRole(role) == {i \in 1..Len(mv_bundle) : mv_bundle[i].role = role}

\* C11: every create_protected_bundle call, for any main transaction and
\* wallet group, returns a bundle of at most four transactions that holds
\* the main transaction exactly once and at most three protection
\* transactions: one backrun of the opposite direction and up to two dummies.
C11_BundleOfAtMostFour ==
    mv_result # "none" =>
        /\ mv_result = "bundle"
        /\ Len(mv_bundle) <= 4
        /\ \E i \in 1..Len(mv_bundle) :
              /\ mv_bundle[i] = mv_main
              /\ BundleRole("main") = {i}
        /\ Cardinality(BundleRole("backrun")) = 1
        /\ \A i \in BundleRole("backrun") : mv_bundle[i].is_buy = ~mv_main.is_buy
        /\ Cardinality(BundleRole("dummy")) <= 2
        /\ Cardinality(BundleRole("backrun") \cup BundleRole("dummy")) <= 3

(***************************************************************************)
(* Specifications and claims of the volume tracker.                        *)
(*                                                                         *)
(* SpecSession runs sessions of one wallet with reports and a clock;       *)
(* SpecLedger records trades of two wallets for the position replay.       *)
(***************************************************************************)
InitSession ==
    /\ main_wallet_key = "key"
    /\ max_retries = MaxRetries
    /\ InitEmptyPool
    /\ InitIdleCall
    /\ InitBundler
    /\ InitRisk
    /\ InitMev
    /\ InitTracker
    /\ InitDetector
    /\ InitPattern
    /\ InitExecutor
    /\ InitNoTrade

\* target_volume arguments: omitted, 0.0 and 1000.0
Targets == {None, Some(F(0)), Some(F(100000))}

\* duration_hours arguments: omitted, 0 and 1
Hours == {None, Some(0), Some(1)}

\* Trades of the session runs: 0.1, 0.2 and 0.3 tokens at price 1.0 and
\* 1.0 token at price 100.0.
SessionTrades ==
    {TradeRecord(1, "t1", "buy", 10, 100),
     TradeRecord(1, "t1", "buy", 20, 100),
     TradeRecord(1, "t1", "sell", 30, 100),
     TradeRecord(1, "t1", "buy", 100, 10000)}

NextSession ==
    \/ \E target \in Targets, duration_hours \in Hours :
          StartSession(target, duration_hours)
          /\ UNCHANGED <<wmVars, bdVars, rmVars, ptVars, rdVars, mvVars, adVars, ssVars, etVars>>
    \/ \E trade \in SessionTrades : RecordTrade(trade)
          /\ UNCHANGED <<wmVars, bdVars, rmVars, ptVars, rdVars, mvVars, adVars, ssVars, etVars>>
    \/ GenerateReport
          /\ UNCHANGED <<wmVars, bdVars, rmVars, ptVars, rdVars, mvVars, adVars, ssVars, etVars>>
    \/ Tick
          /\ UNCHANGED <<wmVars, bdVars, rmVars, ptVars, rdVars, mvVars, adVars, ssVars, etVars>>

SpecSession == InitSession /\ [][NextSession]_vars

\* C12: get_session_volume returns the sum of amount * price over all
\* recorded trades, and returns the same value for every permutation of the
\* same trades.
C12_VolumeIsOrderIndependentSum ==
    \A p \in Shuffles(trades) : GetSessionVolume(p) = GetSessionVolume(trades)

\* Indices of the recorded trades of one side.
TradesOfSide(side) == {i \in 1..Len(trades) : trades[i].side = side}

\* C13: after any sequence of start_session and record_trade calls the
\* counts of get_trade_count add up to the number of recorded trades, and
\* each count is exactly the number of trades of its side.
C13_TradeCountsPartitionTrades ==
    LET counts == GetTradeCount(trades)
    IN  /\ counts.buy = Cardinality(TradesOfSide("buy"))
        /\ counts.sell = Cardinality(TradesOfSide("sell"))
        /\ counts.buy + counts.sell = Len(trades)

\* A report of a session with two buys and one sell.
C13_Witness ==
    /\ vt_result.outcome = "report"
    /\ vt_result.trade_counts = Some([buy |-> 2, sell |-> 1])
    /\ Len(trades) = 3

\* Trades of the ledger runs: two wallets trading one token; buys of 1.0,
\* 0.0 and -1.0 tokens and sells of 1.0 token at prices 100.0 and 400.0
\* (record_trade accepts any amount).
LedgerWallets == {1, 2}

LedgerTrades ==
    {TradeRecord(w, "t1", "buy", 100, 10000) : w \in LedgerWallets}
    \cup {TradeRecord(w, "t1", "buy", 100, 40000) : w \in LedgerWallets}
    \cup {TradeRecord(w, "t1", "buy", 0, 10000) : w \in LedgerWallets}
    \cup {TradeRecord(w, "t1", "buy", -100, 10000) : w \in LedgerWallets}
    \cup {TradeRecord(w, "t1", "sell", 100, 10000) : w \in LedgerWallets}
    \cup {TradeRecord(w, "t1", "sell", 100, 40000) : w \in LedgerWallets}

NextLedger ==
    \/ StartSession(None, None)
          /\ UNCHANGED <<wmVars, bdVars, rmVars, ptVars, rdVars, mvVars, adVars, ssVars, etVars>>
    \/ \E trade \in LedgerTrades : RecordTrade(trade)
          /\ UNCHANGED <<wmVars, bdVars, rmVars, ptVars, rdVars, mvVars, adVars, ssVars, etVars>>

SpecLedger == InitSession /\ [][NextLedger]_vars

LedgerKeys == {<<w, "t1">> : w \in LedgerWallets}

\* The position of a key once get_positions has replayed the first n trades.
PositionAfter(n, key) == PositionOf(SubSeq(trades, 1, n), key)

\* Trade n is the first trade of its key after trade m.
NextOnKey(m, n) ==
    /\ m < n
    /\ PositionKey(trades[m]) = PositionKey(trades[n])
    /\ \A j \in (m + 1)..(n - 1) : PositionKey(trades[j]) # PositionKey(trades[n])

\* Trade m is a buy into a flat position and trade n, the next trade of the
\* same wallet and token, sells the amount bought.
BuyThenEqualSell(m, n) ==
    /\ NextOnKey(m, n)
    /\ trades[m].side = "buy"
    /\ trades[n].side = "sell"
    /\ trades[n].amount = trades[m].amount
    /\ PositionAfter(m - 1, PositionKey(trades[m])).amount = F(0)

IsFlat(pos) ==
    /\ pos.amount = F(0)
    /\ pos.avg_price = F(0)
    /\ pos.total_cost = F(0)

\* C14: in get_positions a buy followed by a sell of the equal amount on
\* the same wallet and token returns the position's amount to exactly 0 and
\* resets its avg_price and total_cost to 0.
C14_BuyThenEqualSellIsFlat ==
    \A m, n \in 1..Len(trades) :
        BuyThenEqualSell(m, n) => IsFlat(PositionAfter(n, PositionKey(trades[n])))

\* A buy of 1.0 token and the sale of it, with a trade of the other wallet
\* between the two.
C14_Witness ==
    /\ Len(trades) = 3
    /\ BuyThenEqualSell(1, 3)
    /\ trades[1].amount = F(100)
    /\ PositionAfter(2, PositionKey(trades[1])).avg_price # F(0)

\* Trade n is a sell that takes the amount of its position to 0 or below.
SellsOut(n) ==
    /\ trades[n].side = "sell"
    /\ PositionAfter(n - 1, PositionKey(trades[n])).amount[1] - trades[n].amount[1] <= 0

\* A sell that takes the amount to 0 or below resets the position to empty,
\* and the next buy of the key starts from the empty position.
ResetsAndRestarts ==
    /\ \A n \in 1..Len(trades) :
          SellsOut(n) => IsFlat(PositionAfter(n, PositionKey(trades[n])))
    /\ \A m, n \in 1..Len(trades) :
          (SellsOut(m) /\ NextOnKey(m, n) /\ trades[n].side = "buy") =>
              LET pos == PositionAfter(n, PositionKey(trades[n]))
              IN  /\ pos.amount = trades[n].amount
                  /\ pos.total_cost[1] * 100 = trades[n].amount[1] * trades[n].price[1]
                  /\ pos.avg_price = IF trades[n].amount[1] > 0
                                     THEN trades[n].price
                                     ELSE F(0)

\* Every position has a non-negative amount after every trade.
AmountsNonNegative ==
    \A n \in 0..Len(trades), key \in LedgerKeys : PositionAfter(n, key).amount[1] >= 0

\* C15 as stated: every position get_positions returns has amount >= 0; a
\* sell that takes the amount to 0 or below resets the position to empty,
\* and a later buy starts from the empty position.
C15_PositionsNeverNegative ==
    /\ AmountsNonNegative
    /\ ResetsAndRestarts

\* C15, amended: the amounts are non-negative when no recorded trade has a
\* negative amount; the reset and the restart hold for all trades.
C15_PositionsNeverNegativeForValidTrades ==
    /\ (\A i \in 1..Len(trades) : trades[i].amount[1] >= 0) => AmountsNonNegative
    /\ ResetsAndRestarts

\* Wallet 1 buys at 100.0, sells the holding and buys again at 400.0.
C15_Witness ==
    /\ Len(trades) = 3
    /\ \A i \in 1..3 : trades[i].amount = F(100) /\ trades[i].wallet_address = 1
    /\ trades[1].side = "buy"
    /\ trades[1].price = F(10000)
    /\ SellsOut(2)
    /\ trades[3].side = "buy"
    /\ PositionAfter(3, <<1, "t1">>).avg_price = F(40000)

\* amount = old amount + trade amount after the buy at trade n.
BuyAddsAmount(n) ==
    LET key == PositionKey(trades[n])
    IN  PositionAfter(n, key).amount[1] =
            PositionAfter(n - 1, key).amount[1] + trades[n].amount[1]

\* old amount * old avg_price + trade amount * trade price, in units of
\* 10^-4, at the buy at trade n.
BuyCost(n) ==
    LET old == PositionAfter(n - 1, PositionKey(trades[n]))
    IN  old.amount[1] * old.avg_price[1] + trades[n].amount[1] * trades[n].price[1]

\* avg_price after the buy at trade n is BuyCost / new amount.
BuyAveragesCost(n) ==
    LET pos == PositionAfter(n, PositionKey(trades[n]))
    IN  /\ pos.amount[1] # 0
        /\ pos.avg_price[2] = 0
        /\ pos.avg_price[1] * pos.amount[1] = BuyCost(n)

\* A sell that leaves a positive amount leaves avg_price unchanged.
PartialSellKeepsAverage ==
    \A n \in 1..Len(trades) :
        LET key == PositionKey(trades[n])
        IN  (trades[n].side = "sell" /\ PositionAfter(n, key).amount[1] > 0) =>
                /\ PositionAfter(n, key).avg_price = PositionAfter(n - 1, key).avg_price
                /\ PositionAfter(n, key).amount[1] =
                      PositionAfter(n - 1, key).amount[1] - trades[n].amount[1]

\* A trade changes the position of its own (wallet, token) only.
KeysIndependent ==
    \A n \in 1..Len(trades), key \in LedgerKeys :
        key # PositionKey(trades[n]) => PositionAfter(n, key) = PositionAfter(n - 1, key)

\* C16 as stated: get_positions replays the trades in order; a buy sets
\* amount = old amount + trade amount and avg_price = (old amount * old
\* avg_price + trade amount * trade price) / new amount; a sell that leaves a
\* positive amount leaves avg_price unchanged; each (wallet, token) position
\* depends only on its own trades.
C16_BuyAveragesCost ==
    /\ \A n \in 1..Len(trades) :
          trades[n].side = "buy" => BuyAddsAmount(n) /\ BuyAveragesCost(n)
    /\ PartialSellKeepsAverage
    /\ KeysIndependent

\* C16, amended: avg_price is the quotient when the new amount is positive
\* and 0 otherwise.
C16_BuyAveragesCostWhenPositive ==
    /\ \A n \in 1..Len(trades) :
          trades[n].side = "buy" =>
              /\ BuyAddsAmount(n)
              /\ IF PositionAfter(n, PositionKey(trades[n])).amount[1] > 0
                 THEN BuyAveragesCost(n)
                 ELSE PositionAfter(n, PositionKey(trades[n])).avg_price = F(0)
    /\ PartialSellKeepsAverage
    /\ KeysIndependent

\* Wallet 1 buys at 100.0 and at 400.0 (avg_price 250.0) and sells half.
C16_Witness ==
    /\ Len(trades) = 3
    /\ \A i \in 1..3 : trades[i].wallet_address = 1
    /\ trades[3].side = "sell"
    /\ PositionAfter(2, <<1, "t1">>).avg_price = F(25000)
    /\ PositionAfter(3, <<1, "t1">>).avg_price = F(25000)
    /\ PositionAfter(3, <<1, "t1">>).amount = F(100)

\* C17: start_session is an explicit reset: when it returns the trade list
\* is empty, the session volume is 0, both trade counts are 0, and the
\* target and duration of the call have replaced the ones of the session
\* before.
C17_StartSessionResets ==
    vt_last.op = "start_session" =>
        /\ trades = <<>>
        /\ GetSessionVolume(trades) = F(0)
        /\ GetTradeCount(trades) = [buy |-> 0, sell |-> 0]
        /\ target_volume = vt_last.args[1]
        /\ session_duration = SessionDuration(vt_last.args[2])
        /\ session_start # None

\* A session with target 1000.0, a duration of one hour and two recorded
\* trades is replaced by a session without target and duration.
C17_Witness ==
    /\ vt_last.op = "start_session"
    /\ vt_last.before.trades = 2
    /\ vt_last.before.target_volume = Some(F(100000))
    /\ vt_last.before.session_duration = Some(1)
    /\ target_volume = None
    /\ session_duration = None

\* C18: generate_report called before any start_session returns the error
\* result 'No active session' instead of raising, and changes nothing of
\* the ledger.
C18_ReportWithoutSessionIsError ==
    [][(vt_last'.op = "generate_report" /\ session_start = None) =>
          /\ vt_result'.outcome = "No active session"
          /\ UNCHANGED <<trades, session_start, target_volume, session_duration>>]_vars

\* generate_report was called with two trades recorded and no session
\* started.
C18_Witness ==
    /\ vt_last.op = "generate_report"
    /\ session_start = None
    /\ Len(trades) = 2
    /\ vt_result.outcome = "No active session"

\* C19: in an active session generate_report reports total_volume equal to
\* get_session_volume, trade_counts equal to get_trade_count, and progress
\* equal to total_volume / target_volume * 100 when a target is set and null
\* otherwise.
C19_ReportMatchesLedger ==
    (vt_last.op = "generate_report" /\ session_start # None) =>
        /\ vt_result.outcome = "report"
        /\ vt_result.total_volume = Some(GetSessionVolume(trades))
        /\ vt_result.trade_counts = Some(GetTradeCount(trades))
        /\ target_volume = None => vt_result.progress = None
        /\ target_volume # None =>
              /\ FTruthy(target_volume[1])
              /\ vt_result.progress =
                    Some(FProgress(GetSessionVolume(trades), target_volume[1]))

(***************************************************************************)
(* Specification and claims of the arbitrage detector.                     *)
(***************************************************************************)
NextDetector ==
    \/ \E name \in DexNames, quote \in Quotes : AddDex(name, quote)
          /\ UNCHANGED <<wmVars, bdVars, rmVars, ptVars, rdVars, mvVars, vtVars, ssVars, etVars>>
    \/ FindOpportunities
          /\ UNCHANGED <<wmVars, bdVars, rmVars, ptVars, rdVars, mvVars, vtVars, ssVars, etVars>>

SpecDetector == InitSession /\ [][NextDetector]_vars

\* Entries of the dexes dict whose DEX returned a price.
PricedIndices == {k \in 1..Len(dexes) : HasPrice(dexes[k])}

PriceAt(k) == dexes[k].quote[1]

\* (sell - buy) / buy is defined and greater than 1 / ThresholdDenominator.
RatioExceeds(buy_price, sell_price) ==
    /\ buy_price > 0
    /\ (sell_price - buy_price) * ThresholdDenominator > buy_price

\* The ordered pairs of distinct registered DEXes that returned a price and
\* whose profit ratio exceeds the threshold.
ProfitablePairs ==
    {<<dexes[p[1]].name, dexes[p[2]].name>> :
        p \in {q \in PricedIndices \X PricedIndices :
                  q[1] # q[2] /\ RatioExceeds(PriceAt(q[1]), PriceAt(q[2]))}}

ReturnedPairs ==
    {<<ad_result.opportunities[k].buy_dex, ad_result.opportunities[k].sell_dex>> :
        k \in 1..Len(ad_result.opportunities)}

\* C20: find_opportunities returns exactly the ordered (buy DEX, sell DEX)
\* pairs of distinct registered DEXes that returned a price and whose profit
\* ratio (sell price - buy price) / buy price exceeds the minimum threshold,
\* each pair once, sorted by profit ratio descending, never a self-pair.
C20_ExactlyTheProfitablePairs ==
    ad_result.outcome # "None" =>
        /\ ad_result.outcome = "list"
        /\ ReturnedPairs = ProfitablePairs
        /\ Len(ad_result.opportunities) = Cardinality(ProfitablePairs)
        /\ \A k \in 1..Len(ad_result.opportunities) :
              ad_result.opportunities[k].buy_dex # ad_result.opportunities[k].sell_dex
        /\ \A k, l \in 1..Len(ad_result.opportunities) :
              k < l => ~RatioGreater(ad_result.opportunities[l],
                                     ad_result.opportunities[k])

(***************************************************************************)
(* Claims about wallet-group creation (SpecPool).                          *)
(***************************************************************************)
\* the addresses recorded under the rounds of `ws`
GroupAddresses(ws) == UNION {{ws[r][i] : i \in 1..Len(ws[r])} : r \in DOMAIN ws}

\* C21: every successful create_wallet_group(n) returns n wallets and records
\* them under a round number that was not in use; the addresses of the group
\* are pairwise distinct and none of them was handed out by an earlier call.
C21_GroupIsFreshAndRecorded ==
    [][\A size \in Sizes :
        (CreateWalletGroup(size) /\ wm_result' = "ok") =>
            /\ Len(wm_keys') = size
            /\ current_round' \notin DOMAIN wallets
            /\ DOMAIN wallets' = DOMAIN wallets \cup {current_round'}
            /\ wallets'[current_round'] = wm_keys'
            /\ \A r \in DOMAIN wallets : wallets'[r] = wallets[r]
            /\ \A i, j \in 1..size : wm_keys'[i] = wm_keys'[j] => i = j
            /\ \A i \in 1..size : wm_keys'[i] \notin GroupAddresses(wallets)
            /\ \A i \in 1..size : wm_keys'[i] \notin trading_wallets]_vars

\* Two groups, the second of two wallets, created after a non-empty first.
C21_Witness ==
    /\ wm_op = "create"
    /\ wm_result = "ok"
    /\ current_round >= 2
    /\ Len(wallets[1]) >= 1
    /\ Len(wallets[current_round]) = 2
    /\ wm_keys = wallets[current_round]

\* C27: create_wallet_group(0) raises ValueError and creates no wallet and
\* no new round.
C27_EmptyGroupIsRefused ==
    [][CreateWalletGroup(0) =>
        /\ wm_result' = "ValueError"
        /\ UNCHANGED <<current_round, wallets, trading_wallets, next_key>>]_vars

\* C28: a distribute_sol call with a negative amount_per_wallet raises
\* ValueError without sending any transfer, whereas a call whose send is
\* rejected on every attempt returns False.
C28_NegativeAmountRaisesValueError ==
    (wm_op = "distribute" /\ wm_pc = "idle") =>
        /\ wm_lamports < 0 => (wm_result = "ValueError" /\ wm_sends = <<>>)
        /\ (wm_lamports >= 0 /\ ExhaustedAt # {}) => wm_result = "False"

(***************************************************************************)
(* Further claims about the executor's rounds (SpecRound).                 *)
(***************************************************************************)
\* the addresses of the wallets the round in progress created
RoundAddresses == {-rd_group[i] : i \in 1..Len(rd_group)}

\* C22: once a round has finished (its recall_sol has run), the keys of the
\* round's wallets are no longer in trading_wallets.
C22_RoundWalletsAreDestroyed ==
    rd_result = "completed" => RoundAddresses \cap trading_wallets = {}

PatternCalls == {PatternCall("pump"), PatternCall("milkshake")}

\* C24: a trading round calls create_wallet_group first, distribute_sol
\* second, then only patterns, and recall_sol last; a round that completed
\* made exactly one call of each of the three and no pattern call before the
\* distribution had returned or after the recall.
C24_RoundCallsInOrder ==
    rd_kind = "trading" =>
        /\ \A i \in 1..Len(rd_calls) :
              /\ (rd_calls[i] = "create_wallet_group") <=> (i = 1)
              /\ (rd_calls[i] = "distribute_sol") <=> (i = 2)
              /\ rd_calls[i] = "recall_sol" => (i >= 3 /\ i = Len(rd_calls))
              /\ i >= 3 => rd_calls[i] \in PatternCalls \cup {"recall_sol"}
        /\ rd_pc = "pattern" => (wm_pc = "idle" /\ wm_op = "distribute")
        /\ rd_result = "completed" =>
              /\ Len(rd_calls) >= 3
              /\ rd_calls[Len(rd_calls)] = "recall_sol"
              /\ Len(rd_calls) = Len(rd_patterns) + 3

\* A trading round that ran two patterns and completed.
C24_Witness ==
    /\ rd_kind = "trading"
    /\ rd_result = "completed"
    /\ Len(rd_calls) = 5
    /\ rd_calls[3] \in PatternCalls
    /\ rd_calls[4] \in PatternCalls

(***************************************************************************)
(* Specification and claims of the trading session.                        *)
(***************************************************************************)
InitTradingSession ==
    /\ main_wallet_key = "key"
    /\ max_retries = 1
    /\ InitEmptyPool
    /\ InitIdleCall
    /\ InitBundler
    /\ InitRisk
    /\ InitMev
    /\ InitTracker
    /\ InitDetector
    /\ InitPattern
    /\ wallet_group_size \in 0..MaxWallets
    /\ hf_enabled \in BOOLEAN
    /\ InitNoRound
    /\ InitNoTradingSession
    /\ InitNoTrade

NextTradingSession ==
    \/ StartTradingSession /\ UNCHANGED <<bdVars, rmVars, mvVars, vtVars, adVars, etVars>>
    \/ \E drawn \in BOOLEAN : SessionRound(drawn) /\ UNCHANGED <<bdVars, rmVars, mvVars, vtVars, adVars, etVars>>
    \/ \E h \in RoundAmounts : RoundDistribute(h) /\ UNCHANGED <<bdVars, rmVars, mvVars, vtVars, adVars, ssVars, etVars>>
    \/ \E b \in BOOLEAN, f \in 0..max_retries : RoundDistributeStep(b, f)
          /\ UNCHANGED <<bdVars, rmVars, mvVars, vtVars, adVars, ssVars, etVars>>
    \/ RoundFunded /\ UNCHANGED <<bdVars, rmVars, mvVars, vtVars, adVars, ssVars, etVars>>
    \/ \E c \in {"pump", "milkshake"} : RoundNextPattern(c) /\ UNCHANGED <<bdVars, rmVars, mvVars, vtVars, adVars, ssVars, etVars>>
    \/ RoundNextBatch /\ UNCHANGED <<bdVars, rmVars, mvVars, vtVars, adVars, ssVars, etVars>>
    \/ \E i \in 1..MaxPool, c \in {"pump", "milkshake"} : RoundTaskStart(i, c)
          /\ UNCHANGED <<bdVars, rmVars, mvVars, vtVars, adVars, ssVars, etVars>>
    \/ \E ok \in BOOLEAN, sellers \in SUBSET (1..MaxPool) :
          RoundPatternStep(PumpPrice(ok, sellers))
          /\ UNCHANGED <<bdVars, rmVars, mvVars, vtVars, adVars, ssVars, etVars>>
    \/ \E ok \in BOOLEAN, sh \in Shuffles(pt_group) : RoundPatternStep(MilkshakePrice(ok, sh))
          /\ UNCHANGED <<bdVars, rmVars, mvVars, vtVars, adVars, ssVars, etVars>>
    \/ \E ok \in BOOLEAN : RoundPatternStep(PlanStep(ok)) /\ UNCHANGED <<bdVars, rmVars, mvVars, vtVars, adVars, ssVars, etVars>>
    \/ RoundPatternStep(PatternReturn) /\ UNCHANGED <<bdVars, rmVars, mvVars, vtVars, adVars, ssVars, etVars>>
    \/ RoundAfterPattern /\ UNCHANGED <<bdVars, rmVars, mvVars, vtVars, adVars, ssVars, etVars>>
    \/ RoundBatchDone /\ UNCHANGED <<bdVars, rmVars, mvVars, vtVars, adVars, ssVars, etVars>>
    \/ RoundRecall /\ UNCHANGED <<bdVars, rmVars, mvVars, vtVars, adVars, ssVars, etVars>>
    \/ \E q \in {"raise", "value"}, v \in {0, 2 * FeeReserveLamports}, b \in BOOLEAN,
          f \in 0..max_retries : RoundRecallStep(q, v, b, f)
          /\ UNCHANGED <<bdVars, rmVars, mvVars, vtVars, adVars, ssVars, etVars>>
    \/ RoundRecalled /\ UNCHANGED <<bdVars, rmVars, mvVars, vtVars, adVars, ssVars, etVars>>
    \/ SessionAfterRound /\ UNCHANGED <<bdVars, rmVars, mvVars, vtVars, adVars, etVars>>
    \/ SessionEnd /\ UNCHANGED <<bdVars, rmVars, mvVars, vtVars, adVars, etVars>>

SpecTradingSession == InitTradingSession /\ [][NextTradingSession]_vars

\* C23: a failure raised inside execute_trading_round,
\* execute_high_frequency_round or start_trading_session is re-raised, never
\* swallowed: a ValueError of create_wallet_group and an exception of a
\* pattern end the round as raised, a round that has raised never completes,
\* and a round that raised ends the session as raised.
C23_FailuresAreReRaised ==
    [][/\ (wm_op' = "create" /\ wm_result' = "ValueError") =>
             (rd_pc' = "done" /\ rd_result' = "raised")
       /\ (rd_pc = "pattern" /\ pt_pc = "done" /\ pt_result = "raised"
             /\ rd_pc' # "pattern") => rd_result' = "raised"
       /\ (rd_result = "raised" /\ rd_pc # "done") => rd_result' = "raised"
       /\ (rd_pc' = "done" /\ rd_pc # "done" /\ rd_result = "raised") =>
             rd_result' = "raised"
       /\ (ss_pc = "round" /\ rd_pc = "done" /\ rd_result = "raised"
             /\ ss_pc' # "round") => (ss_pc' = "done" /\ ss_result' = "raised")
       /\ (ss_result' = "completed" /\ ss_pc # "done") => ss_pc = "loop"
      ]_vars

\* A session ended as raised by a pattern of its second round, after a first
\* round that completed.
C23_Witness ==
    /\ ss_pc = "done"
    /\ ss_result = "raised"
    /\ rd_result = "raised"
    /\ pt_result = "raised"
    /\ current_round = 2

(***************************************************************************)
(* Further claims about the risk manager (SpecRisk, SpecRiskFair).         *)
(***************************************************************************)
\* a step of the start_monitoring coroutine
MonitorStep ==
    \/ \E po \in {"ok", "raise"}, ty \in {"Decimal", "float"}, io \in {"ok", "raise"},
          i \in Impacts, so \in {"ok", "raise"} : CheckPosition(po, ty, io, i, so)
    \/ TickEnd
    \/ TickAbort
    \/ Wake

\* The event loop resumes the monitoring coroutine whenever it can run: an
\* awaited query answers or raises and a sleep ends.
SpecRiskFair == SpecRisk /\ WF_<<positions, rm_pc, rm_next, rm_used, rm_last>>(MonitorStep)

\* C29: stop_monitoring only clears the flag.  A tick in progress goes on to
\* its end, after the flag is cleared the loop starts no new tick,
\* start_monitoring returns at the next tick boundary and nowhere else, and
\* it does return.
C29_StopIsCooperative ==
    /\ [][/\ (monitoring /\ ~monitoring') =>
                UNCHANGED <<positions, rm_pc, rm_next, rm_used, rm_last>>
          /\ (rm_pc = "tick" /\ rm_pc' # "tick") => rm_pc' \in {"sleep", "backoff"}
          /\ (~monitoring /\ rm_pc \in {"sleep", "backoff"}) =>
                rm_pc' \in {rm_pc, "stopped"}
          /\ (rm_pc # "stopped" /\ rm_pc' = "stopped") =>
                (~monitoring /\ rm_pc \in {"sleep", "backoff"})
         ]_vars
    /\ (~monitoring /\ rm_pc # "stopped") ~> (rm_pc = "stopped")

\* stop_monitoring was called in the middle of a tick over two positions,
\* the tick has checked its second position since and the loop is asleep.
C29_Witness ==
    /\ ~monitoring
    /\ rm_pc = "sleep"
    /\ rm_used = 2
    /\ rm_next = 3
    /\ rm_last.key = positions[2].key

\* C30: a position check whose price or price-impact query raises changes no
\* position (the checked one stays open with its highest_price and its
\* stop_loss_price) and the tick goes on with the next position of the same
\* iteration.
C30_QueryFailureIsIsolated ==
    [][\A po \in {"ok", "raise"}, io \in {"ok", "raise"}, ty \in {"Decimal", "float"},
         i \in Impacts, so \in {"ok", "raise"} :
          ((po = "raise" \/ io = "raise") /\ CheckPosition(po, ty, io, i, so)) =>
             /\ positions' = positions
             /\ rm_last'.key = positions[rm_next].key
             /\ rm_last'.outcome = "query_error"
             /\ rm_last'.sold = "none"
             /\ rm_pc' = "tick"
             /\ rm_next' = rm_next + 1
             /\ rm_used' = rm_used
             /\ monitoring' = monitoring]_vars

\* The check of the first of two positions failed on a query although the
\* quoted price was above the highest_price of that trailing-stop position;
\* the tick is about to check the second position.
C30_Witness ==
    /\ rm_pc = "tick"
    /\ rm_used = 2
    /\ Len(positions) = 2
    /\ rm_next = 2
    /\ rm_last.outcome = "query_error"
    /\ rm_last.key = positions[1].key
    /\ positions[1].trailing_stop
    /\ market_price > positions[1].highest_price

(***************************************************************************)
(* Specification and claims of execute_trade.                              *)
(***************************************************************************)
\* the DEXes registered with the executor's detector in these runs
TradeDexNames == {"A", "B"}

TradeQuotes == {Some(0), Some(100), Some(106), Some(201)}

\* The DEXes are registered before the first trade.
NextTrade ==
    \/ \E name \in TradeDexNames, quote \in TradeQuotes :
          et_last = NoTrade /\ AddDex(name, quote)
          /\ UNCHANGED <<wmVars, bdVars, rmVars, ptVars, rdVars, ssVars, mvVars, vtVars, etVars>>
    \/ \E token \in TradeTokens, is_buy \in BOOLEAN, check \in BOOLEAN,
          wallet \in ActiveWallets, protected \in {"ok", "raise"},
          priced \in {"ok", "raise"}, price \in EntryPrices, trailing \in {FALSE} :
          ExecuteTrade(token, is_buy, check, wallet, protected, priced, price, trailing)
          /\ UNCHANGED <<wmVars, bdVars, ptVars, rdVars, ssVars, mvVars, vtVars, adVars>>

SpecTrade == InitSession /\ [][NextTrade]_vars

\* the last call found a best opportunity above the configured minimum
ArbitrageTaken ==
    /\ et_last.check_arbitrage
    /\ et_last.opportunities # <<>>
    /\ TakesArbitrage(et_last.opportunities[1].profit_ratio)

\* the last call made a protected trade that succeeded and, for a buy, got
\* the current price
ProtectedTradeDone ==
    /\ et_last.op = "execute_trade"
    /\ et_last.detector \in {"skipped", "list"}
    /\ ~ArbitrageTaken
    /\ et_last.protected = "ok"
    /\ et_last.is_buy => et_last.priced = "ok"

TradeKey == et_last.wallet \o ":" \o et_last.token

\* C25: an execute_trade call that takes no arbitrage (check_arbitrage=False
\* included) and whose protected trade succeeds returns the signature and
\* the details; a buy opens exactly one position, keyed by the active wallet
\* and the token, with the traded amount and the current price as entry
\* price; a sell opens none.
C25_ProtectedTradeReturnsAndOpensPosition ==
    ProtectedTradeDone =>
        /\ et_result.outcome = "returned"
        /\ et_result.signature = "sig"
        /\ ~et_last.is_buy => positions = et_last.before
        /\ et_last.is_buy =>
              /\ WithoutKey(positions, TradeKey) = WithoutKey(et_last.before, TradeKey)
              /\ \E i \in 1..Len(positions) :
                    /\ positions[i].key = TradeKey
                    /\ positions[i].amount = PositionAmount
                    /\ positions[i].entry_price = et_last.price

\* C26: an execute_trade call with check_arbitrage enabled whose best
\* opportunity has a profit ratio above the configured minimum executes the
\* arbitrage bundle and returns its signature and details, and opens no
\* position.
C26_ProfitableArbitrageIsExecuted ==
    (et_last.op = "execute_trade" /\ ArbitrageTaken) =>
        /\ et_result.outcome = "returned"
        /\ et_result.type = "arbitrage"
        /\ et_result.signature # ""
        /\ positions = et_last.before

(***************************************************************************)
(* Claims about _retry_transaction (SpecWallet).                           *)
(***************************************************************************)
\* C31: _retry_transaction makes at most max_retries attempts, returns True
\* at the first accepted attempt without a further send, sleeps 2^k seconds
\* after the failed attempt k (k = 0, 1, ...) unless it was the last one,
\* and returns False once max_retries attempts have all failed.  `fails` is
\* the number of consecutive sends the node rejects.
C31_RetryIsBoundedBackoff ==
    \A fails \in 0..(MaxRetries + 1) :
        LET r == RetryTransaction(fails)
            n == Len(r.outcomes)
        IN  /\ n <= max_retries
            /\ \A j \in 1..n : r.outcomes[j] <=> (j = n /\ r.result = "True")
            /\ fails < max_retries => (r.result = "True" /\ n = fails + 1)
            /\ fails >= max_retries => (r.result = "False" /\ n = max_retries)
            /\ Len(r.sleeps) = (IF n = 0 THEN 0 ELSE n - 1)
            /\ \A k \in 1..Len(r.sleeps) : r.sleeps[k] = Pow2(k - 1)

\* C32: an exception that leaves _check_positions puts the loop into one
\* sleep of twice the monitor interval and changes nothing else; when that
\* sleep ends the loop starts a tick if monitoring is still set (never a
\* second back-off sleep), a tick that ends without exception is followed by
\* the normal sleep, and only stop_monitoring clears the monitoring flag.
C32_BackoffOnceThenResume ==
    /\ [][/\ TickAbort => (rm_pc' = "backoff" /\ monitoring' = monitoring
                            /\ positions' = positions)
          /\ (rm_pc = "backoff" /\ rm_pc' # "backoff") =>
                rm_pc' = (IF monitoring THEN "tick" ELSE "stopped")
          /\ (rm_pc # "backoff" /\ rm_pc' = "backoff") =>
                (rm_pc = "tick" /\ Len(positions) # rm_used)
          /\ (rm_pc = "tick" /\ Len(positions) = rm_used /\ rm_pc' # "tick") =>
                rm_pc' = "sleep"
          /\ (monitoring /\ ~monitoring') => UNCHANGED <<positions, rm_pc, rm_next>>
         ]_vars
    /\ (rm_pc = "backoff" /\ monitoring) ~> (rm_pc = "tick" \/ ~monitoring)

\* A stop-loss sold the first of two positions, the dict changed size under
\* the iterator and the loop is in its back-off sleep with monitoring set.
C32_Witness ==
    /\ rm_pc = "backoff"
    /\ monitoring
    /\ rm_used = 2
    /\ Len(positions) = 1
    /\ rm_last.outcome = "stop_loss"
    /\ rm_last.sold = "ok"

(***************************************************************************)
(* Further claims about the trading patterns (SpecPattern).                *)
(***************************************************************************)
\* C33: buys come before sells.  In the milkshake pattern a logged sell has
\* every buy of the buy group logged before it, each of them returned, and no
\* buy follows a sell.  In the high-frequency pattern no sell task is pending
\* while a buy task of the pass is pending, and while the sells of a pass run
\* the log ends with one returned buy per buy wallet, in the order they
\* happened to end, followed by the sells that have ended so far.
C33_BuyWaveBeforeSellWave ==
    /\ pt_op = "milkshake" =>
          \A j \in 1..Len(pt_swaps) :
             ~pt_swaps[j].is_buy =>
                /\ \A i \in (j + 1)..Len(pt_swaps) : ~pt_swaps[i].is_buy
                /\ j > BuyCount(Len(pt_group))
                /\ \A i \in 1..BuyCount(Len(pt_group)) :
                      /\ pt_swaps[i] = SwapRecord(pt_group[i], "buy", TRUE)
    /\ pt_op = "high_frequency" =>
          /\ (pt_pending \cap SellTasks # {}) => (pt_pending \cap BuyTasks = {})
          /\ pt_pc = "hf_sells" =>
                LET nb == Cardinality(BuyTasks)
                    k == Cardinality(SellTasks \ pt_pending)
                    L == Len(pt_swaps)
                IN  /\ L >= nb + k
                    /\ \A j \in (L - k + 1)..L : ~pt_swaps[j].is_buy
                    /\ \A j \in (L - k - nb + 1)..(L - k) :
                          pt_swaps[j].is_buy /\ pt_swaps[j].ok
                    /\ \A i \in BuyTasks :
                          \E j \in (L - k - nb + 1)..(L - k) :
                             pt_swaps[j].wallet = pt_group[i]

\* The two buys of a pass over three wallets ended in the reverse order of
\* their creation, and the sell of the pass is in flight.
C33_Witness ==
    /\ pt_op = "high_frequency"
    /\ pt_pc = "hf_sells"
    /\ Len(pt_group) = 3
    /\ pt_pending = SellTasks
    /\ Len(pt_swaps) = 2
    /\ pt_swaps[1].wallet = pt_group[2]
    /\ pt_swaps[2].wallet = pt_group[1]

(***************************************************************************)
(* Specification and claim of calculate_optimal_amount.                    *)
(***************************************************************************)
\* The 'max_amount' entry of the opportunity: absent, or an integer.
MaxAmountOptions == {None} \cup {Some(n) : n \in (-1)..MaxAmount}

\* profit_ratio of the opportunity, in millionths
ProfitRatios == {-100, 0, 100, 150, 184, 200, 300, 600, 1100, 1101, 2000}

NextOptimalAmount ==
    \/ \E m \in MaxAmountOptions, r \in ProfitRatios : CalculateOptimalAmount(m, r)
          /\ UNCHANGED <<wmVars, bdVars, rmVars, ptVars, rdVars, mvVars, vtVars, ssVars, etVars>>

SpecOptimalAmount == InitSession /\ [][NextOptimalAmount]_vars

\* C34: calculate_optimal_amount tests the candidates max_amount,
\* max_amount // 2, ... (a strictly decreasing list, so the loop ends), stops
\* at the first one whose profit_ratio * amount exceeds gas cost plus price
\* impact and returns it, and returns 0 when the candidates ran out; then no
\* positive amount up to max_amount satisfies the inequality.
C34_OptimalAmountHalves ==
    ad_optimal.called =>
        LET start == IF ad_optimal.max_amount = None THEN DefaultMaxAmount
                     ELSE ad_optimal.max_amount[1]
            ratio == ad_optimal.profit_ratio
            t == ad_optimal.tried
            a == ad_optimal.amount
        IN  /\ IF start > 0 THEN t # <<>> /\ t[1] = start ELSE t = <<>>
            /\ \A i \in 1..(Len(t) - 1) :
                  /\ t[i + 1] = t[i] \div 2
                  /\ t[i + 1] < t[i]
                  /\ ratio * t[i] <= GasCostMicro + ImpactMicroPerUnit * t[i]
            /\ \A i \in 1..Len(t) : t[i] > 0
            /\ a >= 0
            /\ a > 0 => /\ a = t[Len(t)]
                        /\ ratio * a > GasCostMicro + ImpactMicroPerUnit * a
            /\ a = 0 => /\ t # <<>> => t[Len(t)] = 1
                        /\ \A b \in 1..(MaxAmount + 1) :
                              b <= start =>
                                 ratio * b <= GasCostMicro + ImpactMicroPerUnit * b

\* From max_amount 10 at a ratio of 0.0002, where profit equals cost, the
\* loop tried 10, 5, 2 and 1 and returned 0.
C34_Witness ==
    /\ ad_optimal.called
    /\ ad_optimal.max_amount = Some(10)
    /\ ad_optimal.profit_ratio = 200
    /\ ad_optimal.tried = <<10, 5, 2, 1>>
    /\ ad_optimal.amount = 0

(***************************************************************************)
(* Claims about a tick and the positions dict (SpecRisk).                  *)
(***************************************************************************)
\* C35 (as claimed): a tick never ends in a tick-level exception and checks
\* every position that was open when it started, also after a stop-loss of
\* the tick removed a position: whenever the loop sleeps after a tick, it is
\* the normal sleep and the tick has gone through all rm_used positions.
C35_StopLossDoesNotAbortTick ==
    rm_pc \in {"sleep", "backoff"} => (rm_pc = "sleep" /\ rm_next > rm_used)

(***************************************************************************)
(* Specification of the risk manager with other tasks, and its claim.      *)
(***************************************************************************)
NextRiskTasks ==
    \/ \E k \in PositionKeys, e \in EntryPrices, t \in ThresholdOptions, tr \in BOOLEAN,
          d \in DistanceOptions : AddPosition(k, e, t, tr, d)
          /\ UNCHANGED <<wmVars, bdVars, ptVars, rdVars, mvVars, vtVars, adVars, ssVars, etVars>>
    \/ \E k \in PositionKeys : RemovePosition(k)
          /\ UNCHANGED <<wmVars, bdVars, ptVars, rdVars, mvVars, vtVars, adVars, ssVars, etVars>>
    \/ \E k \in PositionKeys, e \in EntryPrices, t \in ThresholdOptions, tr \in BOOLEAN,
          d \in DistanceOptions : AddPositionDuringTick(k, e, t, tr, d)
          /\ UNCHANGED <<wmVars, bdVars, ptVars, rdVars, mvVars, vtVars, adVars, ssVars, etVars>>
    \/ \E k \in PositionKeys : RemovePositionDuringTick(k)
          /\ UNCHANGED <<wmVars, bdVars, ptVars, rdVars, mvVars, vtVars, adVars, ssVars, etVars>>
    \/ \E p \in Prices : PriceMove(p) /\ UNCHANGED <<wmVars, bdVars, ptVars, rdVars, mvVars, vtVars, adVars, ssVars, etVars>>
    \/ StartMonitoring /\ UNCHANGED <<wmVars, bdVars, ptVars, rdVars, mvVars, vtVars, adVars, ssVars, etVars>>
    \/ StopMonitoring /\ UNCHANGED <<wmVars, bdVars, ptVars, rdVars, mvVars, vtVars, adVars, ssVars, etVars>>
    \/ \E po \in {"ok", "raise"}, ty \in {"Decimal", "float"}, io \in {"ok", "raise"},
          i \in Impacts, so \in {"ok", "raise"} : CheckPosition(po, ty, io, i, so)
          /\ UNCHANGED <<wmVars, bdVars, ptVars, rdVars, mvVars, vtVars, adVars, ssVars, etVars>>
    \/ TickEnd /\ UNCHANGED <<wmVars, bdVars, ptVars, rdVars, mvVars, vtVars, adVars, ssVars, etVars>>
    \/ TickAbort /\ UNCHANGED <<wmVars, bdVars, ptVars, rdVars, mvVars, vtVars, adVars, ssVars, etVars>>
    \/ Wake /\ UNCHANGED <<wmVars, bdVars, ptVars, rdVars, mvVars, vtVars, adVars, ssVars, etVars>>

SpecRiskTasks == InitRiskManager /\ [][NextRiskTasks]_vars

\* C36 (as claimed): an add_position or remove_position of another task
\* while the tick is suspended leaves the tick able to go on: the iterator
\* over the positions still finds the dict in the size it expects, so its
\* next step raises nothing and the positions that are left get checked.
C36_ConcurrentChangeKeepsTick ==
    [][/\ \A k \in PositionKeys, e \in EntryPrices, t \in ThresholdOptions,
            tr \in BOOLEAN, d \in DistanceOptions :
             AddPositionDuringTick(k, e, t, tr, d) => Len(positions') = rm_used'
       /\ \A k \in PositionKeys :
             RemovePositionDuringTick(k) => Len(positions') = rm_used'
      ]_vars

(***************************************************************************)
(* Specification of repeated start_monitoring calls, and its claim.        *)
(* Positions are added and removed while no coroutine is inside a tick.    *)
(***************************************************************************)
NextRiskLoops ==
    \/ \E k \in PositionKeys, e \in EntryPrices :
          rm_second.pc # "tick" /\ AddPosition(k, e, 0, FALSE, 0)
          /\ UNCHANGED <<wmVars, bdVars, ptVars, rdVars, mvVars, vtVars, adVars, ssVars, etVars>>
    \/ \E k \in PositionKeys : rm_second.pc # "tick" /\ RemovePosition(k)
          /\ UNCHANGED <<wmVars, bdVars, ptVars, rdVars, mvVars, vtVars, adVars, ssVars, etVars>>
    \/ \E p \in Prices : PriceMove(p) /\ UNCHANGED <<wmVars, bdVars, ptVars, rdVars, mvVars, vtVars, adVars, ssVars, etVars>>
    \/ StartMonitoring /\ UNCHANGED <<wmVars, bdVars, ptVars, rdVars, mvVars, vtVars, adVars, ssVars, etVars>>
    \/ StartMonitoringAgain /\ UNCHANGED <<wmVars, bdVars, ptVars, rdVars, mvVars, vtVars, adVars, ssVars, etVars>>
    \/ StopMonitoring /\ UNCHANGED <<wmVars, bdVars, ptVars, rdVars, mvVars, vtVars, adVars, ssVars, etVars>>
    \/ \E po \in {"ok", "raise"}, so \in {"ok", "raise"} : CheckPosition(po, "Decimal", "ok", 0, so)
          /\ UNCHANGED <<wmVars, bdVars, ptVars, rdVars, mvVars, vtVars, adVars, ssVars, etVars>>
    \/ TickEnd /\ UNCHANGED <<wmVars, bdVars, ptVars, rdVars, mvVars, vtVars, adVars, ssVars, etVars>>
    \/ TickAbort /\ UNCHANGED <<wmVars, bdVars, ptVars, rdVars, mvVars, vtVars, adVars, ssVars, etVars>>
    \/ Wake /\ UNCHANGED <<wmVars, bdVars, ptVars, rdVars, mvVars, vtVars, adVars, ssVars, etVars>>
    \/ \E po \in {"ok", "raise"}, so \in {"ok", "raise"} :
          SecondCheckPosition(po, "Decimal", "ok", 0, so)
          /\ UNCHANGED <<wmVars, bdVars, ptVars, rdVars, mvVars, vtVars, adVars, ssVars, etVars>>
    \/ SecondTickEnd /\ UNCHANGED <<wmVars, bdVars, ptVars, rdVars, mvVars, vtVars, adVars, ssVars, etVars>>
    \/ SecondWake /\ UNCHANGED <<wmVars, bdVars, ptVars, rdVars, mvVars, vtVars, adVars, ssVars, etVars>>

SpecRiskLoops == InitRiskManager /\ [][NextRiskLoops]_vars

\* C37 (as claimed): at most one monitoring loop ticks: the coroutines of
\* two start_monitoring calls are never both inside a tick.
C37_AtMostOneLoopTicks ==
    ~(rm_pc = "tick" /\ rm_second.pc = "tick")

(***************************************************************************)
(* Further claim about the rounds (SpecRound).                             *)
(***************************************************************************)
\* C38 (as claimed): a round that called distribute_sol for its wallet group
\* has called recall_sol for it by the time it returns or raises.
C38_FundsAreAlwaysRecalled ==
    (rd_pc = "done" /\ \E i \in 1..Len(rd_calls) : rd_calls[i] = "distribute_sol") =>
        \E j \in 1..Len(rd_calls) : rd_calls[j] = "recall_sol"

(***************************************************************************)
(* Further claims about the ledger (SpecLedger).                           *)
(***************************************************************************)
\* C39 (as claimed): after replaying trades of positive amounts, every
\* position get_positions returns has total_cost = amount * avg_price, also
\* after a sell that leaves part of the position.
C39_TotalCostIsAmountTimesAvgPrice ==
    (\A n \in 1..Len(trades) : FPositive(trades[n].amount)) =>
        \A key \in DOMAIN GetPositions(trades) :
            LET pos == GetPositions(trades)[key]
            IN  pos.total_cost = FMul(pos.amount, pos.avg_price)

(***************************************************************************)
(* Specification and claim of the wallet performance report.               *)
(***************************************************************************)
\* The trades of SessionTrades, made by either of two wallets.
PerformanceTrades ==
    {[t EXCEPT !.wallet_address = w] : t \in SessionTrades, w \in LedgerWallets}

NextPerformance ==
    \/ StartSession(None, None)
          /\ UNCHANGED <<wmVars, bdVars, rmVars, ptVars, rdVars, mvVars, adVars, ssVars, etVars>>
    \/ \E trade \in PerformanceTrades : RecordTrade(trade)
          /\ UNCHANGED <<wmVars, bdVars, rmVars, ptVars, rdVars, mvVars, adVars, ssVars, etVars>>

SpecPerformance == InitSession /\ [][NextPerformance]_vars

\* sum(stats['volume'] for stats in wallet_stats.values())
RECURSIVE SumOfVolumes(_)
SumOfVolumes(stats) ==
    IF stats = <<>> THEN F(0)
    ELSE FAdd(SumOfVolumes(Front(stats)), Last(stats).volume)

RECURSIVE SumOfTradeCounts(_)
SumOfTradeCounts(stats) ==
    IF stats = <<>> THEN 0
    ELSE SumOfTradeCounts(Front(stats)) + Last(stats).trade_count

\* C40 (as claimed): in the dict get_wallet_performance returns, every
\* wallet has trade_count = buys + sells, the trade_counts add up to the
\* number of recorded trades and the volumes add up to get_session_volume().
C40_WalletStatsMatchSessionTotals ==
    LET stats == GetWalletPerformance(trades)
    IN  /\ \A i \in 1..Len(stats) :
              stats[i].trade_count = stats[i].buys + stats[i].sells
        /\ SumOfTradeCounts(stats) = Len(trades)
        /\ SumOfVolumes(stats) = GetSessionVolume(trades)

====
